---- MODULE Spec2Model ----
(***************************************************************************)
(* Arena tree of hql (hql/src/tree.rs): a Vec of nodes addressed by dense  *)
(* handles, each node carrying parent / children (first,last) / previous   *)
(* and next sibling links, the structural mutations on it and its          *)
(* traversals; and, on top of it, the parsed document (hql/src/html), the  *)
(* selectors (hql/src/selector) and the query executor (querier.rs).       *)
(*                                                                         *)
(* A handle h is the integer h; the node with handle h is stored at        *)
(* nodes[h + 1] (TLA+ sequences are 1-based, Vec is 0-based).              *)
(* Option<NodeID> is None (-1) or the handle; Option<(NodeID, NodeID)> is  *)
(* NoChildren (<<>>) or the pair <<first, last>>.                          *)
(***************************************************************************)
EXTENDS Integers, Sequences, FiniteSets, TLC

\* Largest number of nodes the arena may hold (root included).
MaxNodes == 4

\* Largest number of calls made on one tree.
MaxCalls == 4

\* Option::None for Option<NodeID>.
None == 0 - 1

\* Option::None for Option<(NodeID, NodeID)>.
NoChildren == <<>>

VARIABLES
    nodes,     \* Tree::nodes, the arena
    before,    \* the arena as it was when the last call was made
    call,      \* the last call: its name, its two handle arguments, how it ended
    ncalls,    \* how many calls were made so far
    plain,     \* no call so far linked a node under itself or a descendant
    html,      \* Html: its arena (nodes) and the DomNode of each slot (data)
    selectors, \* Querier::selectors, the stages run so far
    working,   \* the local nodes of query_document: the working set
    wbefore,   \* the working set before the last stage
    qret,      \* where the query is: "parsing" (not started), "running",
               \* "returned", or "panic" (a stage aborted)
    hql,       \* the pairs of the statement try_parse_hql compiled last
    iter       \* a ChildrenTraverse or PreOrderTraverse over nodes: its fields,
               \* what next() returned last, and how often it was called

\* The variables of the arena under direct calls, and of a document queried.
treeVars == <<nodes, before, call, ncalls, plain>>
queryVars == <<html, selectors, working, wbefore, qret>>

vars == <<nodes, before, call, ncalls, plain, html, selectors, working, wbefore, qret,
          hql, iter>>

----------------------------------------------------------------------------
(* Node and the read accessors of Tree *)

\* Node::orphan(id, data): an unlinked node.
Orphan(id) ==
    [id |-> id, parent |-> None, children |-> NoChildren,
     previous_sibling |-> None, next_sibling |-> None]

\* Tree::new(root): the arena holds the root alone, with handle 0.
TreeNew == <<Orphan(0)>>

\* Vec::get bounds check: whether handle id addresses a slot of ns.
InRange(ns, id) == id \in 0 .. (Len(ns) - 1)

\* Tree::node_ref / node_mut_ref on a handle in range: the node in slot id.
node_ref(ns, id) == ns[id + 1]

\* Tree::parent_ref: the handle of the slot parent_ref returns a reference
\* to, None when the node or its parent link is missing.
parent_ref(ns, id) ==
    IF InRange(ns, id) /\ node_ref(ns, id).parent # None
                       /\ InRange(ns, node_ref(ns, id).parent)
    THEN node_ref(ns, id).parent
    ELSE None

\* Tree::children_range on a handle in range.
children_range(ns, parent) == node_ref(ns, parent).children

\* ChildrenTraverse::next called until it returns None, from cursor cur: the
\* handles yielded, in order.  left is the number of items still collected:
\* a cursor that is still Some after one item per arena slot and one more is
\* going round a cycle of sibling links, and the sequence is cut there.
RECURSIVE TraverseFrom(_, _, _, _)
TraverseFrom(ns, cur, reversed, left) ==
    IF cur = None \/ left = 0 THEN <<>>
    ELSE <<cur>> \o TraverseFrom(ns,
                                 IF reversed THEN node_ref(ns, cur).previous_sibling
                                             ELSE node_ref(ns, cur).next_sibling,
                                 reversed, left - 1)

\* ChildrenTraverse::new starting at children.first whatever reversed is.
ChildrenTraverseFromFirst(ns, parent, reversed) ==
    LET ch == children_range(ns, parent) IN
    IF ch = NoChildren THEN <<>>
    ELSE TraverseFrom(ns, ch[1], reversed, Len(ns) + 1)

\* ChildrenTraverse::new(tree, parent, reversed) collected: the cursor starts
\* at children.first (children.last when reversed), None without children.
ChildrenTraverse(ns, parent, reversed) ==
    LET ch == children_range(ns, parent) IN
    IF ch = NoChildren THEN <<>>
    ELSE TraverseFrom(ns, IF reversed THEN ch[2] ELSE ch[1], reversed, Len(ns) + 1)

\* The nodes reached from id by following the parent field one or more
\* times (left bounds the walk, a cycle of parent links never ends).
RECURSIVE AncestorsWalk(_, _, _)
AncestorsWalk(ns, id, left) ==
    IF left = 0 \/ node_ref(ns, id).parent = None THEN {}
    ELSE {node_ref(ns, id).parent}
           \cup AncestorsWalk(ns, node_ref(ns, id).parent, left - 1)

Ancestors(ns, id) == AncestorsWalk(ns, id, Len(ns))

\* Field assignments through node_mut_ref.
SetParent(ns, id, v) == [ns EXCEPT ![id + 1].parent = v]
SetChildren(ns, id, v) == [ns EXCEPT ![id + 1].children = v]
SetPrev(ns, id, v) == [ns EXCEPT ![id + 1].previous_sibling = v]
SetNext(ns, id, v) == [ns EXCEPT ![id + 1].next_sibling = v]

\* How a call ends: "Some" / "None" are its Option result, "panic" is an
\* unwrap() of None (the arena is left as it was at that statement), "hang"
\* is a loop that never exits.
Ret(ns, r) == [nodes |-> ns, ret |-> r]

----------------------------------------------------------------------------
(* PreOrderTraverse *)

\* The cursor of a next() that never returns: its ascent goes round a cycle
\* of parent links.
Hang == 0 - 2

\* Tree::node_ref as the traversal uses it: the handle when it addresses a
\* slot, None when it is None or out of range.
Deref(ns, id) == IF id # None /\ InRange(ns, id) THEN id ELSE None

\* The loop of PreOrderTraverse::next that ascends from a node without child
\* and without next sibling: parent is the node looked at, left the number
\* of iterations still allowed (one per arena slot reaches every ancestor of
\* a tree; more means a cycle).
RECURSIVE Ascend(_, _, _, _)
Ascend(ns, root, parent, left) ==
    IF parent = None THEN None
    ELSE IF left = 0 THEN Hang
    ELSE IF node_ref(ns, parent).id = node_ref(ns, root).id THEN None
    ELSE IF node_ref(ns, parent).next_sibling # None
         THEN Deref(ns, node_ref(ns, parent).next_sibling)
    ELSE Ascend(ns, root, Deref(ns, node_ref(ns, parent).parent), left - 1)

\* PreOrderTraverse::next without the step to the next sibling: a node
\* without children goes straight to the ascent.
PreOrderNextNoSibling(ns, root, cur) ==
    IF node_ref(ns, cur).children # NoChildren
    THEN Deref(ns, node_ref(ns, cur).children[1])
    ELSE Ascend(ns, root, Deref(ns, node_ref(ns, cur).parent), Len(ns))

\* PreOrderTraverse::next, the cursor it leaves for the call after: the
\* first child; else the next sibling; else the next sibling of the nearest
\* ancestor that has one, None once the ascent meets the traversal root or a
\* node without parent.
PreOrderNext(ns, root, cur) ==
    IF node_ref(ns, cur).children # NoChildren
    THEN Deref(ns, node_ref(ns, cur).children[1])
    ELSE IF Deref(ns, node_ref(ns, cur).next_sibling) # None
         THEN node_ref(ns, cur).next_sibling
    ELSE Ascend(ns, root, Deref(ns, node_ref(ns, cur).parent), Len(ns))

\* next() called until it returns None, from cursor cur: the handles yielded,
\* in order.  A call whose ascent hangs yields nothing.  left is the number of
\* items still collected, as in TraverseFrom.
RECURSIVE PreOrderFrom(_, _, _, _)
PreOrderFrom(ns, root, cur, left) ==
    IF cur = None \/ left = 0 THEN <<>>
    ELSE LET nxt == PreOrderNext(ns, root, cur) IN
         IF nxt = Hang THEN <<>>
         ELSE <<cur>> \o PreOrderFrom(ns, root, nxt, left - 1)

\* PreOrderTraverse::new(tree, root) collected: the cursor starts at root.
PreOrderTraverse(ns, root) == PreOrderFrom(ns, root, root, Len(ns) + 1)

----------------------------------------------------------------------------
(* The mutations of Tree *)

\* orphan_node taking the handle after the push instead of before it: the
\* new node's handle is one past its slot.
orphan_node_late_handle(ns) == Ret(Append(ns, Orphan(Len(ns) + 1)), "Some")

\* Tree::orphan_node: push an unlinked node whose handle is the old length.
orphan_node(ns) == Ret(Append(ns, Orphan(Len(ns))), "Some")

\* detach leaving node.parent as it was.
detach_keeping_parent(ns, node_id) ==
    IF ~InRange(ns, node_id) THEN Ret(ns, "None")
    ELSE
      LET p == parent_ref(ns, node_id)
          parent_id == IF p = None THEN None ELSE node_ref(ns, p).parent
      IN
      IF parent_id = None THEN Ret(ns, "Some")
      ELSE
        LET prev_sibling_id == node_ref(ns, node_id).previous_sibling
            next_sibling_id == node_ref(ns, node_id).next_sibling
            \* the sibling links are cleaned, the parent is kept
            n1 == SetNext(SetPrev(ns, node_id, None), node_id, None)
            \* connect prev_sibling and next_sib
            n2 == IF prev_sibling_id # None
                  THEN SetNext(n1, prev_sibling_id, next_sibling_id) ELSE n1
            n3 == IF next_sibling_id # None
                  THEN SetPrev(n2, next_sibling_id, prev_sibling_id) ELSE n2
            ch == node_ref(n3, parent_id).children
        IN
        IF ch = NoChildren THEN Ret(n3, "panic")
        ELSE IF ch[1] = ch[2] THEN Ret(SetChildren(n3, parent_id, NoChildren), "Some")
        ELSE IF ch[1] = node_id THEN
               IF next_sibling_id = None THEN Ret(n3, "panic")
               ELSE Ret(SetChildren(n3, parent_id, <<next_sibling_id, ch[2]>>), "Some")
        ELSE IF ch[2] = node_id THEN
               IF prev_sibling_id = None THEN Ret(n3, "panic")
               ELSE Ret(SetChildren(n3, parent_id, <<ch[1], prev_sibling_id>>), "Some")
        ELSE Ret(n3, "Some")

\* Tree::detach.  parent_id is read through parent_ref(node_id) and then
\* that node's own parent field, as the source does.
detach(ns, node_id) ==
    IF ~InRange(ns, node_id) THEN Ret(ns, "None")
    ELSE
      LET p == parent_ref(ns, node_id)
          parent_id == IF p = None THEN None ELSE node_ref(ns, p).parent
      IN
      IF parent_id = None THEN Ret(ns, "Some")
      ELSE
        LET prev_sibling_id == node_ref(ns, node_id).previous_sibling
            next_sibling_id == node_ref(ns, node_id).next_sibling
            \* clean node relations
            n1 == SetNext(SetPrev(SetParent(ns, node_id, None), node_id, None),
                          node_id, None)
            \* connect prev_sibling and next_sib
            n2 == IF prev_sibling_id # None
                  THEN SetNext(n1, prev_sibling_id, next_sibling_id) ELSE n1
            n3 == IF next_sibling_id # None
                  THEN SetPrev(n2, next_sibling_id, prev_sibling_id) ELSE n2
            ch == node_ref(n3, parent_id).children
        IN
        IF ch = NoChildren THEN Ret(n3, "panic")
        ELSE IF ch[1] = ch[2] THEN Ret(SetChildren(n3, parent_id, NoChildren), "Some")
        ELSE IF ch[1] = node_id THEN
               IF next_sibling_id = None THEN Ret(n3, "panic")
               ELSE Ret(SetChildren(n3, parent_id, <<next_sibling_id, ch[2]>>), "Some")
        ELSE IF ch[2] = node_id THEN
               IF prev_sibling_id = None THEN Ret(n3, "panic")
               ELSE Ret(SetChildren(n3, parent_id, <<ch[1], prev_sibling_id>>), "Some")
        ELSE Ret(n3, "Some")

\* insert_id_before setting next_sibling of the new sibling before it looks
\* for the parent of node_id.
insert_id_before_linking_first(ns, node_id, new_sib_id) ==
    LET parent_id == parent_ref(ns, node_id) IN
    IF parent_id = None
    THEN Ret(IF InRange(ns, new_sib_id) /\ InRange(ns, node_id)
             THEN SetNext(ns, new_sib_id, node_id) ELSE ns, "None")
    ELSE IF ~InRange(ns, new_sib_id) THEN Ret(ns, "panic")
    ELSE
      LET pid == node_ref(ns, parent_id).id
          old_sib == node_ref(ns, node_id).previous_sibling
          n1 == SetParent(SetNext(SetPrev(ns, new_sib_id, old_sib),
                                  new_sib_id, node_id), new_sib_id, pid)
      IN
      IF old_sib # None
      THEN Ret(SetPrev(SetNext(n1, old_sib, new_sib_id), node_id, new_sib_id), "Some")
      ELSE IF node_ref(n1, pid).children = NoChildren THEN Ret(n1, "panic")
      ELSE Ret(SetPrev(SetChildren(n1, pid,
                                   <<new_sib_id, node_ref(n1, pid).children[2]>>),
                       node_id, new_sib_id), "Some")

\* Tree::insert_id_before.
insert_id_before(ns, node_id, new_sib_id) ==
    LET parent_id == parent_ref(ns, node_id) IN
    IF parent_id = None THEN Ret(ns, "None")
    ELSE IF ~InRange(ns, new_sib_id) THEN Ret(ns, "panic")
    ELSE
      LET pid == node_ref(ns, parent_id).id
          old_sib == node_ref(ns, node_id).previous_sibling
          n1 == SetParent(SetNext(SetPrev(ns, new_sib_id, old_sib),
                                  new_sib_id, node_id), new_sib_id, pid)
      IN
      IF old_sib # None
      THEN Ret(SetPrev(SetNext(n1, old_sib, new_sib_id), node_id, new_sib_id), "Some")
      ELSE IF node_ref(n1, pid).children = NoChildren THEN Ret(n1, "panic")
      ELSE Ret(SetPrev(SetChildren(n1, pid,
                                   <<new_sib_id, node_ref(n1, pid).children[2]>>),
                       node_id, new_sib_id), "Some")

\* Tree::append_child_id: detach(child), then link child as target's last.
append_child_id(ns, target, child) ==
    IF ~InRange(ns, child) \/ ~InRange(ns, target) THEN Ret(ns, "None")
    ELSE
      LET d == detach(ns, child) IN
      IF d.ret = "panic" THEN d
      ELSE
        LET n0 == d.nodes
            ch == children_range(n0, target)
        IN
        IF ch # NoChildren
        THEN LET n1 == SetNext(SetPrev(SetParent(n0, child, target), child, ch[2]),
                               child, None)
                 n2 == SetNext(n1, ch[2], child)
             IN Ret(SetChildren(n2, target, <<ch[1], child>>), "Some")
        ELSE LET n1 == SetNext(SetPrev(SetParent(n0, child, target), child, None),
                               child, None)
             IN Ret(SetChildren(n1, target, <<child, child>>), "Some")

\* Tree::insert_before: allocate the new sibling, then insert_id_before.  The
\* allocation stays when insert_id_before returns None.
insert_before(ns, node_id) ==
    insert_id_before(orphan_node(ns).nodes, node_id, Len(ns))

\* Tree::append_child: allocate the child, then append_child_id.  A target
\* one past the end of ns is the handle of the child just allocated.
append_child(ns, target) ==
    append_child_id(orphan_node(ns).nodes, target, Len(ns))

\* The do-while of reparent_from_id_append: starting at child, set parent to
\* new_parent and step to next_sibling until it is None.  left counts the
\* iterations still allowed: a chain that has not ended after one iteration
\* per arena slot revisits a node, and the loop never exits.
RECURSIVE ReparentLoop(_, _, _, _)
ReparentLoop(ns, child, new_parent, left) ==
    LET n1 == SetParent(ns, child, new_parent)
        nxt == node_ref(n1, child).next_sibling
    IN IF nxt = None THEN Ret(n1, "Some")
       ELSE IF left = 0 THEN Ret(n1, "hang")
       ELSE ReparentLoop(n1, nxt, new_parent, left - 1)

\* reparent_from_id_append looking up new_parent only after the loop over
\* the children of node.
reparent_from_id_append_unchecked(ns, node, new_parent) ==
    IF ~InRange(ns, node) THEN Ret(ns, "None")
    ELSE IF children_range(ns, node) = NoChildren
    THEN Ret(ns, IF InRange(ns, new_parent) THEN "Some" ELSE "None")
    ELSE IF ~InRange(ns, new_parent)
    THEN Ret(ReparentLoop(ns, children_range(ns, node)[1], new_parent, Len(ns)).nodes,
             "panic")
    ELSE
      LET first == children_range(ns, node)[1]
          last == children_range(ns, node)[2]
          l == ReparentLoop(ns, first, new_parent, Len(ns))
      IN
      IF l.ret = "hang" THEN l
      ELSE
        LET n1 == l.nodes
            nch == children_range(n1, new_parent)
        IN
        IF nch # NoChildren
        THEN Ret(SetNext(SetPrev(SetChildren(n1, new_parent, <<nch[1], last>>),
                                 first, nch[2]), nch[2], first), "Some")
        ELSE Ret(SetChildren(n1, new_parent, <<first, last>>), "Some")

\* Tree::reparent_from_id_append.
reparent_from_id_append(ns, node, new_parent) ==
    IF ~InRange(ns, node) \/ ~InRange(ns, new_parent) THEN Ret(ns, "None")
    ELSE IF children_range(ns, node) = NoChildren THEN Ret(ns, "Some")
    ELSE
      LET first == children_range(ns, node)[1]
          last == children_range(ns, node)[2]
          l == ReparentLoop(ns, first, new_parent, Len(ns))
      IN
      IF l.ret = "hang" THEN l
      ELSE
        LET n1 == l.nodes
            nch == children_range(n1, new_parent)
        IN
        IF nch # NoChildren
        THEN Ret(SetNext(SetPrev(SetChildren(n1, new_parent, <<nch[1], last>>),
                                 first, nch[2]), nch[2], first), "Some")
        ELSE Ret(SetChildren(n1, new_parent, <<first, last>>), "Some")

\* TreeSink::append_before_sibling of a node: detach(new_node_id), its result
\* dropped; then insert_id_before when sibling has a parent.
append_before_sibling(ns, sibling, new_node_id) ==
    LET d == detach(ns, new_node_id) IN
    IF d.ret = "panic" THEN d
    ELSE IF parent_ref(d.nodes, sibling) = None THEN Ret(d.nodes, "Some")
    ELSE LET i == insert_id_before(d.nodes, sibling, new_node_id) IN
         Ret(i.nodes, IF i.ret = "panic" THEN "panic" ELSE "Some")

\* TreeSink::append of a node: append_child_id(parent, n).unwrap().
TreeSink_append(ns, parent, n) ==
    LET a == append_child_id(ns, parent, n) IN
    Ret(a.nodes, IF a.ret = "Some" THEN "Some" ELSE "panic")

\* TreeSink::append_based_on_parent_node of a node.
append_based_on_parent_node(ns, element, prev_element, child) ==
    IF parent_ref(ns, element) # None
    THEN append_before_sibling(ns, element, child)
    ELSE TreeSink_append(ns, prev_element, child)

----------------------------------------------------------------------------
(* The state machine: a caller making any sequence of calls *)

\* Handles a caller may pass: every slot of the arena, and one past the end.
Handles == 0 .. Len(nodes)

\* A call that panicked or hangs ends the run.
Running == call.ret \in {"Some", "None"} /\ ncalls < MaxCalls

\* Linking child (or the children of child) under target makes no node its
\* own ancestor: child is neither target nor an ancestor of target.  True of
\* a handle out of range, which links nothing.
Apart(ns, target, child) ==
    (InRange(ns, target) /\ InRange(ns, child))
      => (child # target /\ child \notin Ancestors(ns, target))

Do(op, a, b, r, apart) ==
    /\ nodes' = r.nodes
    /\ before' = nodes
    /\ call' = [op |-> op, a |-> a, b |-> b, ret |-> r.ret]
    /\ ncalls' = ncalls + 1
    /\ plain' = (plain /\ apart)
    /\ UNCHANGED <<queryVars, hql, iter>>

\* DomNode::Document.
Document == [kind |-> "Document"]

\* No traversal was made yet.
NoIterator ==
    [kind |-> "none", start |-> None, reversed |-> FALSE, cur |-> None,
     item |-> None, calls |-> 0]

\* Html::new_document: a tree holding the Document node alone.
new_document == [nodes |-> TreeNew, data |-> <<Document>>]

Init ==
    /\ nodes = TreeNew
    /\ before = TreeNew
    /\ call = [op |-> "new", a |-> None, b |-> None, ret |-> "Some"]
    /\ ncalls = 0
    /\ plain = TRUE
    /\ html = new_document
    /\ selectors = <<>>
    /\ working = <<>>
    /\ wbefore = <<>>
    /\ qret = "parsing"
    /\ hql = <<>>
    /\ iter = NoIterator

OrphanNode ==
    /\ Running
    /\ Len(nodes) < MaxNodes
    /\ Do("orphan_node", None, None, orphan_node(nodes), TRUE)

AppendChildId ==
    /\ Running
    /\ \E target \in Handles, child \in Handles :
          Do("append_child_id", target, child, append_child_id(nodes, target, child),
             Apart(nodes, target, child))

InsertIdBefore ==
    /\ Running
    /\ \E node_id \in Handles, new_sib_id \in Handles :
          Do("insert_id_before", node_id, new_sib_id,
             insert_id_before(nodes, node_id, new_sib_id),
             Apart(nodes, node_id, new_sib_id))

Detach ==
    /\ Running
    /\ \E node_id \in Handles :
          Do("detach", node_id, None, detach(nodes, node_id), TRUE)

InsertBefore ==
    /\ Running
    /\ Len(nodes) < MaxNodes
    /\ \E node_id \in Handles :
          Do("insert_before", node_id, Len(nodes), insert_before(nodes, node_id), TRUE)

AppendChild ==
    /\ Running
    /\ Len(nodes) < MaxNodes
    /\ \E target \in Handles :
          Do("append_child", target, Len(nodes), append_child(nodes, target),
             target # Len(nodes))

ReparentFromIdAppend ==
    /\ Running
    /\ \E node \in Handles, new_parent \in Handles :
          Do("reparent_from_id_append", node, new_parent,
             reparent_from_id_append(nodes, node, new_parent),
             Apart(nodes, new_parent, node))

Next ==
    \/ OrphanNode
    \/ AppendChildId
    \/ InsertIdBefore
    \/ Detach
    \/ ReparentFromIdAppend
    \/ InsertBefore
    \/ AppendChild

Spec == Init /\ [][Next]_vars

----------------------------------------------------------------------------
(* A tree built by append_child calls only *)

\* Largest number of nodes of a tree built by append_child alone.
MaxBuild == 6

\* append_child(target, data) on any target: a node of the arena, the handle
\* the call itself allocates, or a handle beyond it (the call returns None
\* and the allocation stays).
BuildAppendChild ==
    /\ call.ret \in {"Some", "None"}
    /\ Len(nodes) < MaxBuild
    /\ \E target \in 0 .. (Len(nodes) + 1) :
          Do("append_child", target, Len(nodes), append_child(nodes, target),
             target # Len(nodes))

NextBuild == BuildAppendChild

SpecBuild == Init /\ [][NextBuild]_vars

----------------------------------------------------------------------------
(* Vocabulary of the properties *)

\* The handles in range of arena ns.
Ids(ns) == 0 .. (Len(ns) - 1)

\* The last call returned (it neither panicked nor hangs).
Returned == call.ret \in {"Some", "None"}

\* The last call was op(a, b) on handles in range and it returned.
Called(op, a, b) == call.op = op /\ call.a = a /\ call.b = b /\ Returned

\* How many times x occurs in sequence sq.
Occurrences(sq, x) == Cardinality({i \in DOMAIN sq : sq[i] = x})

\* sq without its occurrences of x, order kept.
Without(sq, x) == SelectSeq(sq, LAMBDA y : y # x)

\* Node id has no parent and no sibling link.
Unlinked(ns, id) ==
    /\ node_ref(ns, id).parent = None
    /\ node_ref(ns, id).previous_sibling = None
    /\ node_ref(ns, id).next_sibling = None

----------------------------------------------------------------------------
(* Link invariants, C1 .. C4 *)

\* C1, C2, C4 .. C10 are stated for runs in which every call kept the node
\* it links apart from its target (plain): what fails there fails without any
\* call that asks for a cycle.

\* C1: after every call that returns, for every node whose children field is
\* Some((first, last)): following next_sibling from first reaches last, and
\* last.next_sibling is None; following previous_sibling from last reaches
\* first, and first.previous_sibling is None; and for all nodes x, y:
\* x.next_sibling = y exactly when y.previous_sibling = x.
C1_SiblingChainsValid ==
    (plain /\ Returned) =>
      /\ \A p \in Ids(nodes) :
            children_range(nodes, p) # NoChildren =>
              LET first == children_range(nodes, p)[1]
                  last == children_range(nodes, p)[2]
                  fwd == ChildrenTraverse(nodes, p, FALSE)
                  bwd == ChildrenTraverse(nodes, p, TRUE)
              IN /\ Occurrences(fwd, last) >= 1
                 /\ node_ref(nodes, last).next_sibling = None
                 /\ Occurrences(bwd, first) >= 1
                 /\ node_ref(nodes, first).previous_sibling = None
      /\ \A x, y \in Ids(nodes) :
            (node_ref(nodes, x).next_sibling = y)
              <=> (node_ref(nodes, y).previous_sibling = x)

\* C2: after every call that returns, a node's children field is Some(_) if
\* and only if at least one node of the arena has that node as its parent.
C2_ChildrenSomeIffHasChild ==
    (plain /\ Returned) =>
      \A p \in Ids(nodes) :
         (children_range(nodes, p) # NoChildren)
           <=> (\E c \in Ids(nodes) : node_ref(nodes, c).parent = p)

\* C3: after every call that returns, whatever handles in range were passed
\* (the child handle may be the target itself or an ancestor of the target),
\* no node is reachable from itself by following parent links one or more
\* times.
C3_NoParentCycle ==
    Returned => \A h \in Ids(nodes) : h \notin Ancestors(nodes, h)

\* C4: after every call that returns, a node whose parent is Some(p) occurs
\* exactly once in the children chain of p and in no other node's children
\* chain, and a node whose parent is None occurs in no children chain.
C4_ExactlyOneParentChain ==
    (plain /\ Returned) =>
      \A h \in Ids(nodes) : \A q \in Ids(nodes) :
         Occurrences(ChildrenTraverse(nodes, q, FALSE), h)
           = (IF node_ref(nodes, h).parent = q THEN 1 ELSE 0)

----------------------------------------------------------------------------
(* detach, C5 and C6 *)

\* C5: for every node h whose parent field is Some(_), a direct child of the
\* root included, after detach(h) node h has parent = None, previous_sibling
\* = None and next_sibling = None.
C5_DetachClearsOwnLinks ==
    \A h \in Ids(before) :
       (plain /\ Called("detach", h, None) /\ node_ref(before, h).parent # None)
         => Unlinked(nodes, h)

\* C6: for every node h with parent p, after detach(h) the former previous
\* sibling q and next sibling r of h are linked to each other; p.children is
\* None if h was p's only child, has first advanced to r if h was first, has
\* last moved back to q if h was last, and is otherwise unchanged; the
\* children field of every node other than p is unchanged.
C6_DetachRepairsNeighboursAndParent ==
    \A h \in Ids(before) :
       (plain /\ Called("detach", h, None) /\ node_ref(before, h).parent # None) =>
         LET p == node_ref(before, h).parent
             q == node_ref(before, h).previous_sibling
             r == node_ref(before, h).next_sibling
             old == children_range(before, p)
         IN /\ q # None => node_ref(nodes, q).next_sibling = r
            /\ r # None => node_ref(nodes, r).previous_sibling = q
            /\ children_range(nodes, p) =
                 (IF old = <<h, h>> THEN NoChildren
                  ELSE IF old # NoChildren /\ old[1] = h THEN <<r, old[2]>>
                  ELSE IF old # NoChildren /\ old[2] = h THEN <<old[1], q>>
                  ELSE old)
            /\ \A x \in Ids(before) \ {p} :
                  children_range(nodes, x) = children_range(before, x)

----------------------------------------------------------------------------
(* append_child_id, C7 *)

\* C7: for handles p and c in range where c is neither p nor an ancestor of
\* p, after append_child_id(p, c) - c unlinked before, a child of another
\* node, or already a child of p - c.parent = p, p.children.last = c,
\* c.next_sibling = None, c.previous_sibling is the last of p's other
\* children (None if there is none) and that node's next_sibling is c, and
\* the children chain of p is its former chain without c, in the same order,
\* followed by c.
C7_AppendLinksAsLastChild ==
    \A p \in Ids(before), c \in Ids(before) :
       (plain /\ Called("append_child_id", p, c) /\ Apart(before, p, c)) =>
         LET others == Without(ChildrenTraverse(before, p, FALSE), c)
             lastOther == IF others = <<>> THEN None ELSE others[Len(others)]
         IN /\ node_ref(nodes, c).parent = p
            /\ children_range(nodes, p) # NoChildren
            /\ children_range(nodes, p)[2] = c
            /\ node_ref(nodes, c).next_sibling = None
            /\ node_ref(nodes, c).previous_sibling = lastOther
            /\ lastOther # None => node_ref(nodes, lastOther).next_sibling = c
            /\ ChildrenTraverse(nodes, p, FALSE) = others \o <<c>>

----------------------------------------------------------------------------
(* insert_id_before, C8 *)

\* The last call was insert_id_before(s, n) with n unlinked when it was made
\* (directly, or from insert_before(s), which allocates n first), s had a
\* parent, and the call returned.
InsertedUnlinkedBefore(s, n) ==
    /\ Returned
    /\ call.a = s /\ call.b = n
    /\ \/ call.op = "insert_id_before" /\ InRange(before, n) /\ Unlinked(before, n)
       \/ call.op = "insert_before"
    /\ node_ref(before, s).parent # None

\* C8: for a node s with parent p and an unlinked node n, after
\* insert_id_before(s, n): n.parent = p, n.next_sibling = s,
\* s.previous_sibling = n, n.previous_sibling is the former previous sibling
\* q of s (and q.next_sibling = n when q exists), p.children.first becomes n
\* if and only if s was p's first child before, and p.children.last is
\* unchanged.
C8_InsertBeforeSplices ==
    \A s \in Ids(before), n \in Ids(nodes) :
       (plain /\ InsertedUnlinkedBefore(s, n)) =>
         LET p == node_ref(before, s).parent
             q == node_ref(before, s).previous_sibling
             old == children_range(before, p)
             wasFirst == old # NoChildren /\ old[1] = s
             new == children_range(nodes, p)
         IN /\ node_ref(nodes, n).parent = p
            /\ node_ref(nodes, n).next_sibling = s
            /\ node_ref(nodes, s).previous_sibling = n
            /\ node_ref(nodes, n).previous_sibling = q
            /\ q # None => node_ref(nodes, q).next_sibling = n
            /\ new # NoChildren
            /\ (new[1] = n) <=> wasFirst
            /\ ~wasFirst => (old # NoChildren /\ new[1] = old[1])
            /\ old # NoChildren /\ new[2] = old[2]

----------------------------------------------------------------------------
(* reparent_from_id_append, C9 and C10 *)

\* C9: for distinct nodes src and dst where src has children c1..ck (k >= 1),
\* after reparent_from_id_append(src, dst) the children chain of dst is its
\* former children followed by c1..ck in their original order,
\* dst.children.last = ck, and every ci has parent = dst.
C9_ReparentAppendsInOrder ==
    \A src \in Ids(before), dst \in Ids(before) :
       ( /\ plain
         /\ Called("reparent_from_id_append", src, dst)
         /\ src # dst
         /\ children_range(before, src) # NoChildren ) =>
         LET moved == ChildrenTraverse(before, src, FALSE)
             former == ChildrenTraverse(before, dst, FALSE)
         IN /\ ChildrenTraverse(nodes, dst, FALSE) = former \o moved
            /\ children_range(nodes, dst) # NoChildren
            /\ children_range(nodes, dst)[2] = moved[Len(moved)]
            /\ \A i \in DOMAIN moved : node_ref(nodes, moved[i]).parent = dst

\* C10: after reparent_from_id_append(src, dst) with src having at least one
\* child, src is childless: src.children is None (children_range(src)
\* returns None) and a children traversal started at src yields none of the
\* moved nodes.
C10_ReparentLeavesSourceChildless ==
    \A src \in Ids(before), dst \in Ids(before) :
       ( /\ plain
         /\ Called("reparent_from_id_append", src, dst)
         /\ children_range(before, src) # NoChildren ) =>
         LET moved == ChildrenTraverse(before, src, FALSE) IN
         /\ children_range(nodes, src) = NoChildren
         /\ \A i \in DOMAIN moved :
               Occurrences(ChildrenTraverse(nodes, src, FALSE), moved[i]) = 0

----------------------------------------------------------------------------
(* What insert_id_before and reparent_from_id_append do to a sound tree *)

\* Arena ns has valid sibling chains, children tuples that are Some exactly
\* for the nodes that have a child, no cycle of parent links, and every node
\* in the chain of its parent alone.
WellFormed(ns) ==
    /\ \A p \in Ids(ns) :
          children_range(ns, p) # NoChildren =>
            /\ Occurrences(ChildrenTraverse(ns, p, FALSE), children_range(ns, p)[2]) >= 1
            /\ node_ref(ns, children_range(ns, p)[2]).next_sibling = None
            /\ Occurrences(ChildrenTraverse(ns, p, TRUE), children_range(ns, p)[1]) >= 1
            /\ node_ref(ns, children_range(ns, p)[1]).previous_sibling = None
    /\ \A x, y \in Ids(ns) :
          (node_ref(ns, x).next_sibling = y) <=> (node_ref(ns, y).previous_sibling = x)
    /\ \A p \in Ids(ns) :
          (children_range(ns, p) # NoChildren)
            <=> (\E c \in Ids(ns) : node_ref(ns, c).parent = p)
    /\ \A h \in Ids(ns) : h \notin Ancestors(ns, h)
    /\ \A h \in Ids(ns) : \A q \in Ids(ns) :
          Occurrences(ChildrenTraverse(ns, q, FALSE), h)
            = (IF node_ref(ns, h).parent = q THEN 1 ELSE 0)

\* On a tree that was well formed when insert_id_before was called, the
\* splice of C8 is what the code does: C8 fails only on trees that an
\* earlier detach, append_child_id or reparent_from_id_append has damaged.
InsertBeforeSplicesSoundTree == WellFormed(before) => C8_InsertBeforeSplices

\* On a tree that was well formed when reparent_from_id_append was called,
\* the moved children are linked as C9 says.
ReparentAppendsSoundTree == WellFormed(before) => C9_ReparentAppendsInOrder

----------------------------------------------------------------------------
(* detach followed by append_child_id, C11 *)

\* sq back to front.
Reverse(sq) == [i \in 1 .. Len(sq) |-> sq[Len(sq) + 1 - i]]

\* Arena to is arena from with node c taken out of the children chain it was
\* in and put last in the chain of p: every children chain, read forward and
\* backward, every parent link, and sound sibling links.
MovedToLast(from, to, c, p) ==
    /\ Len(to) = Len(from)
    /\ \A q \in Ids(from) :
          LET kept == Without(ChildrenTraverse(from, q, FALSE), c)
              want == IF q = p THEN kept \o <<c>> ELSE kept
          IN /\ ChildrenTraverse(to, q, FALSE) = want
             /\ ChildrenTraverse(to, q, TRUE) = Reverse(want)
    /\ \A h \in Ids(from) :
          node_ref(to, h).parent = (IF h = c THEN p ELSE node_ref(from, h).parent)
    /\ WellFormed(to)

\* C11: on a well-formed tree, for every linked node c and every node p that
\* is neither c nor a descendant of c (the parent of c included), detach(c)
\* followed by append_child_id(p, c) both return Some and leave the tree in
\* which c is absent from its old position and is the last child of p, all
\* other child lists and parent and sibling links being as they were.
C11_DetachThenAppendMoves ==
    (plain /\ Returned /\ WellFormed(nodes)) =>
      \A c \in Ids(nodes), p \in Ids(nodes) :
         (node_ref(nodes, c).parent # None /\ Apart(nodes, p, c)) =>
           LET d == detach(nodes, c)
               a == append_child_id(d.nodes, p, c)
           IN /\ d.ret = "Some"
              /\ a.ret = "Some"
              /\ MovedToLast(nodes, a.nodes, c, p)

----------------------------------------------------------------------------
(* Handles and the arena, C12 *)

\* C12: after any sequence of calls, however each ended, the node in slot i
\* has handle i and the root is in slot 0 with handle 0; no call makes the
\* arena shorter or changes the handle of a slot; orphan_node hands out the
\* length the arena had before the call, and grows the arena by exactly one
\* node, unlinked and childless, leaving every earlier node as it was.
C12_HandlesAreArenaIndices ==
    /\ \A i \in Ids(nodes) : node_ref(nodes, i).id = i
    /\ Len(nodes) >= 1 /\ node_ref(nodes, 0).id = 0
    /\ Len(nodes) >= Len(before)
    /\ \A i \in Ids(before) : node_ref(nodes, i).id = node_ref(before, i).id
    /\ call.op = "orphan_node" =>
         /\ Len(nodes) = Len(before) + 1
         /\ node_ref(nodes, Len(before)) = Orphan(Len(before))
         /\ SubSeq(nodes, 1, Len(before)) = before

\* orphan_node was called on an arena of three nodes, one of them linked
\* under the root by an earlier call.
C12_OrphanAllocatedOnLinkedTree ==
    /\ call.op = "orphan_node"
    /\ Len(before) = 3
    /\ children_range(nodes, 0) # NoChildren

----------------------------------------------------------------------------
(* Traversals, C13 .. C15 *)

\* The members of a set of handles in increasing order.
RECURSIVE Ascending(_)
Ascending(S) ==
    IF S = {} THEN <<>>
    ELSE LET m == CHOOSE x \in S : \A y \in S : x <= y
         IN <<m>> \o Ascending(S \ {m})

\* The nodes whose parent field is p, oldest first: append_child hands out
\* increasing handles and links each new node last, so this is the left to
\* right order of the children of p in a tree built by append_child alone.
ChildrenByHandle(ns, p) == Ascending({c \in Ids(ns) : node_ref(ns, c).parent = p})

\* Depth-first order by definition: n, then the depth-first order of each of
\* its children in turn.  depth bounds the descent.
RECURSIVE DepthFirst(_, _, _)
RECURSIVE DepthFirstAll(_, _, _)
DepthFirst(ns, n, depth) ==
    IF depth = 0 THEN <<n>>
    ELSE <<n>> \o DepthFirstAll(ns, ChildrenByHandle(ns, n), depth - 1)

DepthFirstAll(ns, sq, depth) ==
    IF sq = <<>> THEN <<>>
    ELSE DepthFirst(ns, Head(sq), depth) \o DepthFirstAll(ns, Tail(sq), depth)

\* The subtree of n: n and the nodes that have n among their ancestors.
Subtree(ns, n) == {n} \cup {h \in Ids(ns) : n \in Ancestors(ns, h)}

\* append_child(t, data) for each t of targets in turn, every call on a node
\* of the arena.
RECURSIVE BuildFrom(_, _)
BuildFrom(ns, targets) ==
    IF targets = <<>> THEN ns
    ELSE BuildFrom(append_child(ns, Head(targets)).nodes, Tail(targets))

\* The tree of test_tree_preorder_traverse: root -> {1, 2, 3},
\* 1 -> {4 -> {5 -> {6}}}, 3 -> {7 -> {8, 9}}.
PreorderTestTree == BuildFrom(TreeNew, <<0, 0, 0, 1, 4, 5, 3, 7, 7>>)

\* The tree of test_tree_children_traverse: root -> {1, 2}, 1 -> {3}, 2 -> {4}.
ChildrenTestTree == BuildFrom(TreeNew, <<0, 0, 1, 2>>)

\* The traversal test_tree_preorder_traverse collects.
PreorderTestWalk == PreOrderTraverse(PreorderTestTree, 0)

\* The traversal test_tree_children_traverse collects.
ChildrenTestWalk == ChildrenTraverse(ChildrenTestTree, 0, FALSE)

\* C13: in a tree built by append_child calls only, the pre-order traversal
\* from the root is the depth-first order of the tree: it yields every node
\* reachable from the root exactly once and no other node, each node after
\* its parent, and the children of a node left to right; on the tree
\* root -> {1, 2, 3}, 1 -> {4 -> {5 -> {6}}}, 3 -> {7 -> {8, 9}} it yields
\* [root, 1, 4, 5, 6, 2, 3, 7, 8, 9].
C13_PreOrderFromRootIsDepthFirst ==
    LET walk == PreOrderTraverse(nodes, 0) IN
    /\ walk = DepthFirst(nodes, 0, Len(nodes))
    /\ \A h \in Ids(nodes) :
          Occurrences(walk, h) = (IF h \in Subtree(nodes, 0) THEN 1 ELSE 0)
    /\ \A i, j \in DOMAIN walk :
          /\ node_ref(nodes, walk[j]).parent = walk[i] => i < j
          /\ ( /\ node_ref(nodes, walk[i]).parent = node_ref(nodes, walk[j]).parent
               /\ walk[i] < walk[j] ) => i < j
    /\ PreorderTestWalk = <<0, 1, 4, 5, 6, 2, 3, 7, 8, 9>>

\* The tree root -> {1 -> {3 -> {4}}, 2} was built and walked: after node 4
\* the walk climbs two levels to reach node 2.
C13_WalkClimbsTwoLevels ==
    /\ call.op = "append_child" /\ call.ret = "Some"
    /\ Len(nodes) = 5
    /\ PreOrderTraverse(nodes, 0) = <<0, 1, 3, 4, 2>>

\* C14: for every node r of the tree - a leaf with a next sibling and a node
\* that is not the last child of its parent included - the pre-order
\* traversal started at r yields the subtree of r only: r first, then each
\* descendant of r exactly once in depth-first order, and no node outside
\* the subtree.
C14_PreOrderStaysInSubtree ==
    plain =>
      \A r \in Ids(nodes) :
         LET walk == PreOrderTraverse(nodes, r) IN
         /\ walk = DepthFirst(nodes, r, Len(nodes))
         /\ \A i \in DOMAIN walk : walk[i] \in Subtree(nodes, r)

----------------------------------------------------------------------------
(* Strings.  A string is the sequence of its characters. *)

UpperCase == <<"A", "B", "C", "D", "E", "F", "G", "H", "I", "J", "K", "L", "M",
               "N", "O", "P", "Q", "R", "S", "T", "U", "V", "W", "X", "Y", "Z">>

LowerCase == <<"a", "b", "c", "d", "e", "f", "g", "h", "i", "j", "k", "l", "m",
               "n", "o", "p", "q", "r", "s", "t", "u", "v", "w", "x", "y", "z">>

\* The lower-case letter of each upper-case ASCII letter.
LowerOf == [c \in {UpperCase[i] : i \in DOMAIN UpperCase} |->
              LowerCase[CHOOSE i \in DOMAIN UpperCase : UpperCase[i] = c]]

\* u8::to_ascii_lowercase on one character.
to_ascii_lowercase(c) == IF c \in DOMAIN LowerOf THEN LowerOf[c] ELSE c

\* str::eq_ignore_ascii_case.
eq_ignore_ascii_case(a, b) ==
    /\ Len(a) = Len(b)
    /\ \A i \in DOMAIN a : to_ascii_lowercase(a[i]) = to_ascii_lowercase(b[i])

\* char::is_whitespace on the characters of the model.
Whitespace == {" ", "\n"}

\* str::split_whitespace collected as a set: the maximal runs of characters
\* that are not whitespace.
split_whitespace(t) ==
    {SubSeq(t, i, j) : <<i, j>> \in
        {r \in (DOMAIN t) \X (DOMAIN t) :
            /\ r[1] <= r[2]
            /\ \A k \in r[1] .. r[2] : t[k] \notin Whitespace
            /\ r[1] = 1 \/ t[r[1] - 1] \in Whitespace
            /\ r[2] = Len(t) \/ t[r[2] + 1] \in Whitespace}}

\* str::trim: without the whitespace at either end.
RECURSIVE trim_start(_)
trim_start(t) ==
    IF t # <<>> /\ Head(t) \in Whitespace THEN trim_start(Tail(t)) ELSE t

\* A trim that takes one character off each end, whitespace or not.
trim_one_each_end(t) == IF Len(t) < 2 THEN <<>> ELSE SubSeq(t, 2, Len(t) - 1)

trim(t) == Reverse(trim_start(Reverse(trim_start(t))))

\* str::strip_prefix(prefix).unwrap_or(t).
strip_prefix(t, prefix) ==
    IF Len(prefix) <= Len(t) /\ SubSeq(t, 1, Len(prefix)) = prefix
    THEN SubSeq(t, Len(prefix) + 1, Len(t))
    ELSE t

\* str::strip_suffix(suffix).unwrap_or(t).
strip_suffix(t, suffix) ==
    IF Len(suffix) <= Len(t) /\ SubSeq(t, Len(t) - Len(suffix) + 1, Len(t)) = suffix
    THEN SubSeq(t, 1, Len(t) - Len(suffix))
    ELSE t

\* The concatenation of the strings of a sequence, in order.
RECURSIVE Concat(_)
Concat(sq) == IF sq = <<>> THEN <<>> ELSE Head(sq) \o Concat(Tail(sq))

----------------------------------------------------------------------------
(* DomNode and Element (html/dom.rs).  An Option<T> is the set of its      *)
(* values: {} for None, {v} for Some(v).                                   *)

\* DomNode::Comment.
Comment == [kind |-> "Comment"]

\* DomNode::Element(Element::new(name, attrs)): attrs is the HashMap as the
\* set of its <<name, value>> entries.
Element(name, attrs) == [kind |-> "Element", name |-> name, attrs |-> attrs]

\* DomNode::Text(Text::new(text)).
Text(t) == [kind |-> "Text", text |-> t]

\* Element::id: the value of an attribute whose name is "id" in any case.
Element_id(e) ==
    {a[2] : a \in {x \in e.attrs : eq_ignore_ascii_case(x[1], <<"i", "d">>)}}

\* Element::classes: the whitespace-separated tokens of the class attribute.
Element_classes(e) ==
    UNION {split_whitespace(a[2]) :
             a \in {x \in e.attrs : eq_ignore_ascii_case(x[1], <<"c", "l", "a", "s", "s">>)}}

\* Element::has_class.
Element_has_class(e, cls, case_sensitive) ==
    \E c \in Element_classes(e) :
       IF case_sensitive THEN c = cls ELSE eq_ignore_ascii_case(c, cls)

\* Element::get_attrs: HashMap::get of the attribute name as written.
get_attrs(e, name) == {a[2] : a \in {x \in e.attrs : x[1] = name}}

----------------------------------------------------------------------------
(* Node references (html/mod.rs) *)

\* Node::data of the node with handle h of document doc.
data_ref(doc, h) == doc.data[h + 1]

\* DomNode::as_element is Some: unwrap() on it returns, and panics otherwise.
IsElementNode(doc, h) == data_ref(doc, h).kind = "Element"

\* The three variants of ElementOrTextRef.
ElementRef(h) == [kind |-> "Element", node |-> h]
TextRef(h) == [kind |-> "Text", node |-> h]
PhantomText(t) == [kind |-> "PhantomText", text |-> t]

\* Html::root: the root node of the tree wrapped as an Element reference,
\* whatever its DomNode is.
root(doc) == ElementRef(0)

\* ElementRef::has_id once as_element().unwrap() has returned e: id() mapped
\* through the comparison, then is_some() of the mapped Option.
has_id(e, want, case_sensitive) ==
    {IF case_sensitive THEN i = want ELSE eq_ignore_ascii_case(i, want) :
       i \in Element_id(e)} # {}

\* The filter_map of the traversals ending at the first node that is neither
\* an Element nor a Text node.
RECURSIVE ToRefsUntilOther(_, _)
ToRefsUntilOther(doc, handles) ==
    IF handles = <<>> \/ data_ref(doc, Head(handles)).kind \notin {"Element", "Text"}
    THEN <<>>
    ELSE <<[kind |-> data_ref(doc, Head(handles)).kind, node |-> Head(handles)]>>
           \o ToRefsUntilOther(doc, Tail(handles))

\* The filter_map of traverse_subtree, traverse_children and
\* ElementRef::children: an Element node becomes an Element reference, a Text
\* node a Text reference, any other node is left out.
ToRefs(doc, handles) ==
    LET kept == SelectSeq(handles,
                          LAMBDA h : data_ref(doc, h).kind \in {"Element", "Text"})
    IN [i \in 1 .. Len(kept) |->
          IF data_ref(doc, kept[i]).kind = "Element"
          THEN ElementRef(kept[i]) ELSE TextRef(kept[i])]

\* ElementOrTextRef::traverse_subtree: the pre-order traversal from the
\* node of the reference; nothing for a phantom.
traverse_subtree(doc, r) ==
    IF r.kind = "PhantomText" THEN <<>>
    ELSE ToRefs(doc, PreOrderTraverse(doc.nodes, r.node))

\* ElementOrTextRef::traverse_children.
traverse_children(doc, r, reversed) ==
    IF r.kind = "PhantomText" THEN <<>>
    ELSE ToRefs(doc, ChildrenTraverse(doc.nodes, r.node, reversed))

\* ElementRef::children.
children(doc, h, reversed) == ToRefs(doc, ChildrenTraverse(doc.nodes, h, reversed))

\* ElementRef::text collected by TextSelector: the contents of the Text
\* nodes the pre-order traversal from h yields, concatenated.
text(doc, h) ==
    LET walk == SelectSeq(PreOrderTraverse(doc.nodes, h),
                          LAMBDA n : data_ref(doc, n).kind = "Text")
    IN Concat([i \in 1 .. Len(walk) |-> data_ref(doc, walk[i]).text])

\* The string of a Text or PhantomText reference.
RefText(doc, r) ==
    IF r.kind = "PhantomText" THEN r.text ELSE data_ref(doc, r.node).text

----------------------------------------------------------------------------
(* Selectors (selector/attr.rs, path.rs, text.rs).  A select is Out(refs), *)
(* the Vec it returns, or Panicked when an unwrap() in it aborts.           *)

Out(refs) == [panic |-> FALSE, out |-> refs]
Panicked == [panic |-> TRUE, out |-> <<>>]

\* The filter of the selectors that keep or drop their one input.
Keep(r, cond) == Out(IF cond THEN <<r>> ELSE <<>>)

\* AttrSelector::select comparing the required value character by character.
AttrSelector_select_exact(doc, s, r) ==
    IF r.kind # "Element" THEN Out(<<>>)
    ELSE IF ~IsElementNode(doc, r.node) THEN Panicked
    ELSE Keep(r, \E v \in get_attrs(data_ref(doc, r.node), s.name) :
                    s.val = {} \/ v \in s.val)

\* AttrSelector::select.  get_attr unwraps as_element of the node of an
\* Element reference.
AttrSelector_select(doc, s, r) ==
    IF r.kind # "Element" THEN Out(<<>>)
    ELSE IF ~IsElementNode(doc, r.node) THEN Panicked
    ELSE Keep(r, \E v \in get_attrs(data_ref(doc, r.node), s.name) :
                    s.val = {} \/ \E w \in s.val : eq_ignore_ascii_case(v, w))

\* ClassSelector::select.
ClassSelector_select(doc, s, r) ==
    IF r.kind # "Element" THEN Out(<<>>)
    ELSE IF ~IsElementNode(doc, r.node) THEN Panicked
    ELSE Keep(r, Element_has_class(data_ref(doc, r.node), s.class, s.case_sensitive))

\* IDSelector::select.
IDSelector_select(doc, s, r) ==
    IF r.kind # "Element" THEN Out(<<>>)
    ELSE IF ~IsElementNode(doc, r.node) THEN Panicked
    ELSE Keep(r, has_id(data_ref(doc, r.node), s.id, s.case_sensitive))

\* ExtractAttrSelector::select.
ExtractAttrSelector_select(doc, s, r) ==
    IF r.kind # "Element" THEN Out(<<>>)
    ELSE IF ~IsElementNode(doc, r.node) THEN Panicked
    ELSE LET v == get_attrs(data_ref(doc, r.node), s.attr) IN
         Out(IF v = {} THEN <<>> ELSE <<PhantomText(CHOOSE t \in v : TRUE)>>)

\* FlatSelector::select.
FlatSelector_select(doc, s, r) == Out(traverse_subtree(doc, r))

\* The filter of PathSelector on one reference: an Element whose tag is the
\* one asked for, ASCII case ignored.  The references it is applied to come
\* from traverse_children and traverse_subtree, whose Element references are
\* Element nodes.
TagIs(doc, r, tag) ==
    r.kind = "Element" /\ eq_ignore_ascii_case(data_ref(doc, r.node).name, tag)

\* One step of PathSelector::select over the references refs, in order.
RECURSIVE PathStep(_, _, _)
PathStep(doc, step, refs) ==
    IF refs = <<>> THEN <<>>
    ELSE SelectSeq(IF step.path = "Single"
                   THEN traverse_children(doc, Head(refs), FALSE)
                   ELSE traverse_subtree(doc, Head(refs)),
                   LAMBDA n : TagIs(doc, n, step.tag))
         \o PathStep(doc, step, Tail(refs))

\* The loop of PathSelector::select over its paths.
RECURSIVE PathSteps(_, _, _)
PathSteps(doc, paths, refs) ==
    IF paths = <<>> THEN refs
    ELSE PathSteps(doc, Tail(paths), PathStep(doc, Head(paths), refs))

\* PathSelector::select.
PathSelector_select(doc, s, r) == Out(PathSteps(doc, s.paths, <<r>>))

\* TextSelector::select.
TextSelector_select(doc, s, r) ==
    Out(<<IF r.kind = "Element" THEN PhantomText(text(doc, r.node)) ELSE r>>)

\* TrimSelector::select.
TrimSelector_select(doc, s, r) ==
    Out(<<IF r.kind = "Element" THEN r ELSE PhantomText(trim(RefText(doc, r)))>>)

\* TrimPrefixSelector::select.
TrimPrefixSelector_select(doc, s, r) ==
    Out(<<IF r.kind = "Element" THEN r
          ELSE PhantomText(strip_prefix(RefText(doc, r), s.prefix))>>)

\* TrimSuffixSelector::select.
TrimSuffixSelector_select(doc, s, r) ==
    Out(<<IF r.kind = "Element" THEN r
          ELSE PhantomText(strip_suffix(RefText(doc, r), s.suffix))>>)

\* NthChildSelector::select counting from the first child whatever reversed
\* is.
NthChildSelector_select_forward(doc, s, r) ==
    IF r.kind # "Element" THEN Out(<<>>)
    ELSE LET c == children(doc, r.node, FALSE) IN
         Out(IF s.n < Len(c) THEN <<c[s.n + 1]>> ELSE <<>>)

\* NthChildSelector::select: children(reversed).nth(n).
NthChildSelector_select(doc, s, r) ==
    IF r.kind # "Element" THEN Out(<<>>)
    ELSE LET c == children(doc, r.node, s.reversed) IN
         Out(IF s.n < Len(c) THEN <<c[s.n + 1]>> ELSE <<>>)

\* Selector::select dispatched on the variant of SelectorEnum.
select(doc, s, r) ==
    CASE s.sel = "PathSelector" -> PathSelector_select(doc, s, r)
      [] s.sel = "AttrSelector" -> AttrSelector_select(doc, s, r)
      [] s.sel = "ClassSelector" -> ClassSelector_select(doc, s, r)
      [] s.sel = "IDSelector" -> IDSelector_select(doc, s, r)
      [] s.sel = "FlatSelector" -> FlatSelector_select(doc, s, r)
      [] s.sel = "TextSelector" -> TextSelector_select(doc, s, r)
      [] s.sel = "TrimSelector" -> TrimSelector_select(doc, s, r)
      [] s.sel = "TrimPrefixSelector" -> TrimPrefixSelector_select(doc, s, r)
      [] s.sel = "TrimSuffixSelector" -> TrimSuffixSelector_select(doc, s, r)
      [] s.sel = "NthChildSelector" -> NthChildSelector_select(doc, s, r)
      [] s.sel = "ExtractAttrSelector" -> ExtractAttrSelector_select(doc, s, r)

----------------------------------------------------------------------------
(* Parsing a document and querying it (html/tree_sink.rs, querier.rs) *)

\* Largest number of nodes of a parsed document (the Document node included).
MaxDoc == 3

\* Largest number of characters of one Text node.
MaxText == 8

\* Largest number of stages of a query.
MaxStages == 2

\* Names, values and text of the documents and queries of the model.
str_a == <<"a">>
str_div == <<"d", "i", "v">>
str_DIV == <<"D", "I", "V">>
str_id == <<"i", "d">>
str_class == <<"c", "l", "a", "s", "s">>
str_target == <<"t", "a", "r", "g", "e", "t">>
str_main == <<"m", "a", "i", "n">>
str_Main == <<"M", "a", "i", "n">>
str_blank == <<"_", "b", "l", "a", "n", "k">>
str_BLANK == <<"_", "B", "L", "A", "N", "K">>
str_top == <<"t", "o", "p">>
str_nav == <<"n", "a", "v">>
str_nav_Item == <<"n", "a", "v", " ", "I", "t", "e", "m">>
str_hi == <<" ", "h", "i", " ">>
str_h == <<" ", "h">>

\* The elements the parser creates: <a id="main" target="_BLANK"> and
\* <div class="nav Item" target="top">.
Elements ==
    { Element(str_a, {<<str_id, str_main>>, <<str_target, str_BLANK>>}),
      Element(str_div, {<<str_class, str_nav_Item>>, <<str_target, str_top>>}) }

\* The text chunks the parser appends.
TextChunks == {str_hi}

\* The stages a query is made of: every variant of SelectorEnum.
Selectors ==
    { [sel |-> "PathSelector", paths |-> <<[path |-> "Single", tag |-> str_a]>>],
      [sel |-> "PathSelector", paths |-> <<[path |-> "Travel", tag |-> str_DIV]>>],
      [sel |-> "AttrSelector", name |-> str_class, val |-> {}],
      [sel |-> "AttrSelector", name |-> str_target, val |-> {str_blank}],
      [sel |-> "ClassSelector", class |-> str_nav, case_sensitive |-> TRUE],
      [sel |-> "IDSelector", id |-> str_Main, case_sensitive |-> TRUE],
      [sel |-> "IDSelector", id |-> str_Main, case_sensitive |-> FALSE],
      [sel |-> "FlatSelector"],
      [sel |-> "TextSelector"],
      [sel |-> "TrimSelector"],
      [sel |-> "TrimPrefixSelector", prefix |-> str_h],
      [sel |-> "TrimSuffixSelector", suffix |-> str_h],
      [sel |-> "NthChildSelector", n |-> 0, reversed |-> FALSE],
      [sel |-> "NthChildSelector", n |-> 1, reversed |-> TRUE],
      [sel |-> "ExtractAttrSelector", attr |-> str_target] }

\* flat_map putting the outputs of a later member before those of an earlier
\* one.
RECURSIVE FlatMapBackward(_, _, _)
FlatMapBackward(doc, s, refs) ==
    IF refs = <<>> THEN Out(<<>>)
    ELSE LET h == select(doc, s, Head(refs)) IN
         IF h.panic THEN Panicked
         ELSE LET t == FlatMapBackward(doc, s, Tail(refs)) IN
              IF t.panic THEN Panicked ELSE Out(t.out \o h.out)

\* The flat_map of one stage over the working set refs, collected: the
\* outputs of select for each member in turn, concatenated; Panicked as soon
\* as one select aborts.
RECURSIVE FlatMap(_, _, _)
FlatMap(doc, s, refs) ==
    IF refs = <<>> THEN Out(<<>>)
    ELSE LET h == select(doc, s, Head(refs)) IN
         IF h.panic THEN Panicked
         ELSE LET t == FlatMap(doc, s, Tail(refs)) IN
              IF t.panic THEN Panicked ELSE Out(h.out \o t.out)

\* TreeSink::create_element / create_comment followed by TreeSink::append of
\* the node created: a node with DomNode d is allocated and linked as the
\* last child of parent, a Document or Element node.
SinkAppendNode ==
    /\ qret = "parsing"
    /\ Len(html.nodes) < MaxDoc
    /\ \E parent \in Ids(html.nodes), d \in Elements \cup {Comment} :
          /\ data_ref(html, parent).kind \in {"Document", "Element"}
          /\ LET n == Len(html.nodes)
                 linked == append_child_id(orphan_node(html.nodes).nodes, parent, n)
             IN /\ linked.ret = "Some"
                /\ html' = [nodes |-> linked.nodes, data |-> Append(html.data, d)]
    /\ UNCHANGED <<selectors, working, wbefore, qret>>
    /\ UNCHANGED <<treeVars, hql, iter>>

\* TreeSink::append of text that allocates the new Text node and leaves it
\* unlinked.
SinkAppendTextUnlinked ==
    /\ qret = "parsing"
    /\ \E parent \in Ids(html.nodes), txt \in TextChunks :
          /\ data_ref(html, parent).kind = "Element"
          /\ LET ch == children_range(html.nodes, parent) IN
             IF ch # NoChildren /\ data_ref(html, ch[2]).kind = "Text"
             THEN /\ Len(data_ref(html, ch[2]).text) + Len(txt) <= MaxText
                  /\ html' = [html EXCEPT !.data[ch[2] + 1].text = @ \o txt]
             ELSE /\ Len(html.nodes) < MaxDoc
                  /\ html' = [nodes |-> orphan_node(html.nodes).nodes,
                              data |-> Append(html.data, Text(txt))]
    /\ UNCHANGED <<selectors, working, wbefore, qret>>
    /\ UNCHANGED <<treeVars, hql, iter>>

\* TreeSink::append of text to an Element node: pushed onto the last child
\* when that is a Text node, else appended as a new Text node.
SinkAppendText ==
    /\ qret = "parsing"
    /\ \E parent \in Ids(html.nodes), txt \in TextChunks :
          /\ data_ref(html, parent).kind = "Element"
          /\ LET ch == children_range(html.nodes, parent) IN
             IF ch # NoChildren /\ data_ref(html, ch[2]).kind = "Text"
             THEN /\ Len(data_ref(html, ch[2]).text) + Len(txt) <= MaxText
                  /\ html' = [html EXCEPT !.data[ch[2] + 1].text = @ \o txt]
             ELSE /\ Len(html.nodes) < MaxDoc
                  /\ html' = [nodes |-> append_child(html.nodes, parent).nodes,
                              data |-> Append(html.data, Text(txt))]
    /\ UNCHANGED <<selectors, working, wbefore, qret>>
    /\ UNCHANGED <<treeVars, hql, iter>>

\* Querier::query_document, entry: the working set is the root reference.
QueryStart ==
    /\ qret = "parsing"
    /\ qret' = "running"
    /\ working' = <<root(html)>>
    /\ wbefore' = <<>>
    /\ UNCHANGED <<html, selectors>>
    /\ UNCHANGED <<treeVars, hql, iter>>

\* A stage that starts again from the root reference when the working set
\* has become empty.
QueryStageRestarting ==
    /\ qret = "running"
    /\ Len(selectors) < MaxStages
    /\ \E s \in Selectors :
          LET r == FlatMap(html, s, IF working = <<>> THEN <<root(html)>> ELSE working) IN
          /\ selectors' = Append(selectors, s)
          /\ wbefore' = working
          /\ working' = IF r.panic THEN working ELSE r.out
          /\ qret' = IF r.panic THEN "panic" ELSE "running"
    /\ UNCHANGED html
    /\ UNCHANGED <<treeVars, hql, iter>>

\* A stage that, for the trim selector, also writes the trimmed string back
\* to each Text node of the page.
QueryStageWritingBack ==
    /\ qret = "running"
    /\ Len(selectors) < MaxStages
    /\ \E s \in Selectors :
          LET r == FlatMap(html, s, working) IN
          /\ selectors' = Append(selectors, s)
          /\ wbefore' = working
          /\ working' = IF r.panic THEN working ELSE r.out
          /\ qret' = IF r.panic THEN "panic" ELSE "running"
          /\ html' = IF s.sel # "TrimSelector" THEN html
                     ELSE [html EXCEPT !.data =
                             [i \in DOMAIN html.data |->
                                IF html.data[i].kind = "Text"
                                THEN Text(trim(html.data[i].text))
                                ELSE html.data[i]]]
    /\ UNCHANGED <<treeVars, hql, iter>>

\* One iteration of the loop of query_document, for the next selector s of
\* Querier::selectors: the working set becomes the flat_map of s over it; a
\* select that aborts leaves the query aborted.
QueryStage ==
    /\ qret = "running"
    /\ Len(selectors) < MaxStages
    /\ \E s \in Selectors :
          LET r == FlatMap(html, s, working) IN
          /\ selectors' = Append(selectors, s)
          /\ wbefore' = working
          /\ working' = IF r.panic THEN working ELSE r.out
          /\ qret' = IF r.panic THEN "panic" ELSE "running"
    /\ UNCHANGED html
    /\ UNCHANGED <<treeVars, hql, iter>>

\* query_document, exit: the selectors are used up and nodes is returned.
QueryReturn ==
    /\ qret = "running"
    /\ qret' = "returned"
    /\ UNCHANGED <<html, selectors, working, wbefore>>
    /\ UNCHANGED <<treeVars, hql, iter>>

NextQuery ==
    \/ SinkAppendNode
    \/ SinkAppendText
    \/ QueryStart
    \/ QueryStage
    \/ QueryReturn

SpecQuery == Init /\ [][NextQuery]_vars

----------------------------------------------------------------------------
(* Parsing a page of up to MaxPage nodes, then a query over it *)

\* Largest number of nodes of a page.
MaxPage == 4

\* TreeSink::create_element / create_comment followed by TreeSink::append,
\* for a page.
PageAppendNode ==
    /\ qret = "parsing"
    /\ Len(html.nodes) < MaxPage
    /\ \E parent \in Ids(html.nodes), d \in Elements \cup {Comment} :
          /\ data_ref(html, parent).kind \in {"Document", "Element"}
          /\ LET n == Len(html.nodes)
                 linked == append_child_id(orphan_node(html.nodes).nodes, parent, n)
             IN /\ linked.ret = "Some"
                /\ html' = [nodes |-> linked.nodes, data |-> Append(html.data, d)]
    /\ UNCHANGED <<selectors, working, wbefore, qret>>
    /\ UNCHANGED <<treeVars, hql, iter>>

\* TreeSink::append of text to an Element node of a page.
PageAppendText ==
    /\ qret = "parsing"
    /\ \E parent \in Ids(html.nodes), txt \in TextChunks :
          /\ data_ref(html, parent).kind = "Element"
          /\ LET ch == children_range(html.nodes, parent) IN
             IF ch # NoChildren /\ data_ref(html, ch[2]).kind = "Text"
             THEN /\ Len(data_ref(html, ch[2]).text) + Len(txt) <= MaxText
                  /\ html' = [html EXCEPT !.data[ch[2] + 1].text = @ \o txt]
             ELSE /\ Len(html.nodes) < MaxPage
                  /\ html' = [nodes |-> append_child(html.nodes, parent).nodes,
                              data |-> Append(html.data, Text(txt))]
    /\ UNCHANGED <<selectors, working, wbefore, qret>>
    /\ UNCHANGED <<treeVars, hql, iter>>

NextPage ==
    \/ PageAppendNode
    \/ PageAppendText
    \/ QueryStart
    \/ QueryStage
    \/ QueryReturn

SpecPage == Init /\ [][NextPage]_vars

----------------------------------------------------------------------------
(* Compiling a statement (selector/mod.rs) *)

\* Largest number of digits of the argument of @child.
MaxDigits == 2

\* The decimal digits and their values.
Digits == {"0", "1", "2", "3", "4", "5", "6", "7", "8", "9"}

DigitOf ==
    [c \in Digits |->
       CASE c = "0" -> 0 [] c = "1" -> 1 [] c = "2" -> 2 [] c = "3" -> 3
         [] c = "4" -> 4 [] c = "5" -> 5 [] c = "6" -> 6 [] c = "7" -> 7
         [] c = "8" -> 8 [] c = "9" -> 9]

\* str::parse::<usize> of a string of digits.
RECURSIVE parse_usize(_)
parse_usize(t) ==
    IF t = <<>> THEN 0
    ELSE 10 * parse_usize(SubSeq(t, 1, Len(t) - 1)) + DigitOf[t[Len(t)]]

\* NthChildSelector::new.
NthChildSelector_new(n, reversed) ==
    [sel |-> "NthChildSelector", n |-> n, reversed |-> reversed]

\* parse_child counting a negative argument from the last child without
\* taking one off.
parse_child_same_index(n_str) ==
    LET neg_sign == Head(n_str) = "-"
        n == parse_usize(IF neg_sign THEN Tail(n_str) ELSE n_str)
    IN IF neg_sign /\ n > 0
       THEN NthChildSelector_new(n, TRUE)
       ELSE NthChildSelector_new(n, FALSE)

\* HqlParser::parse_child of the text n_str of the argument.
parse_child(n_str) ==
    LET neg_sign == Head(n_str) = "-"
        n == parse_usize(IF neg_sign THEN Tail(n_str) ELSE n_str)
    IN IF neg_sign /\ n > 0
       THEN NthChildSelector_new(n - 1, TRUE)
       ELSE NthChildSelector_new(n, FALSE)

\* HqlParser::parse_expr of one pair.
parse_expr(pair) ==
    CASE pair.rule = "childExpr" -> parse_child(pair.inner)

\* HqlParser::parse_stmt: parse_expr of each pair in turn.
parse_stmt(pairs) == [i \in DOMAIN pairs |-> parse_expr(pairs[i])]

\* The texts the argument of @child can be: an optional minus sign, then
\* one digit or more.
ChildArgs ==
    LET digits == UNION {[1 .. k -> Digits] : k \in 1 .. MaxDigits}
    IN digits \cup {<<"-">> \o d : d \in digits}

\* try_parse_hql of the statement @child(n_str), once: the selectors of the
\* querier are the ones parse_stmt gives.
TryParseChild ==
    /\ qret = "parsing"
    /\ hql = <<>>
    /\ \E n_str \in ChildArgs :
          /\ hql' = <<[rule |-> "childExpr", inner |-> n_str]>>
          /\ selectors' = parse_stmt(hql')
    /\ UNCHANGED <<html, working, wbefore, qret>>
    /\ UNCHANGED <<treeVars, iter>>

NextCompile == TryParseChild

SpecCompile == Init /\ [][NextCompile]_vars

----------------------------------------------------------------------------
(* Stepping an iterator over a tree built by append_child *)

\* Largest number of nodes of the tree walked.
MaxWalk == 4

\* Largest number of next() calls on the iterator.
MaxNext == 7

\* ChildrenTraverse::new: the fields of the iterator.
ChildrenTraverse_new(ns, parent, reversed) ==
    LET ch == children_range(ns, parent) IN
    [kind |-> "ChildrenTraverse", start |-> parent, reversed |-> reversed,
     cur |-> IF ch = NoChildren THEN None
             ELSE Deref(ns, IF reversed THEN ch[2] ELSE ch[1]),
     item |-> None, calls |-> 0]

\* PreOrderTraverse::new: the cursor is the root of the walk.
PreOrderTraverse_new(ns, start) ==
    [kind |-> "PreOrderTraverse", start |-> start, reversed |-> FALSE,
     cur |-> start, item |-> None, calls |-> 0]

\* ChildrenTraverse::next that goes back to the first child (the last when
\* reversed) once the cursor is None.
ChildrenTraverse_next_wrapping(ns, it) ==
    IF it.cur = None
    THEN [it EXCEPT !.item = None, !.calls = @ + 1,
                    !.cur = ChildrenTraverse_new(ns, it.start, it.reversed).cur]
    ELSE [it EXCEPT !.item = it.cur, !.calls = @ + 1,
                    !.cur = Deref(ns, IF it.reversed
                                      THEN node_ref(ns, it.cur).previous_sibling
                                      ELSE node_ref(ns, it.cur).next_sibling)]

\* ChildrenTraverse::next: returns the cursor; a cursor that is Some moves to
\* the previous or next sibling, a cursor that is None is left alone.
ChildrenTraverse_next(ns, it) ==
    IF it.cur = None
    THEN [it EXCEPT !.item = None, !.calls = @ + 1]
    ELSE [it EXCEPT !.item = it.cur, !.calls = @ + 1,
                    !.cur = Deref(ns, IF it.reversed
                                      THEN node_ref(ns, it.cur).previous_sibling
                                      ELSE node_ref(ns, it.cur).next_sibling)]

\* PreOrderTraverse::next: self.cur? returns None on a cursor that is None;
\* else the cursor moves on and the node it was on is returned.
PreOrderTraverse_next(ns, it) ==
    IF it.cur = None
    THEN [it EXCEPT !.item = None, !.calls = @ + 1]
    ELSE [it EXCEPT !.item = it.cur, !.calls = @ + 1,
                    !.cur = PreOrderNext(ns, it.start, it.cur)]

\* append_child(target, data) while no iterator borrows the tree.
WalkAppendChild ==
    /\ iter.kind = "none"
    /\ call.ret \in {"Some", "None"}
    /\ Len(nodes) < MaxWalk
    /\ \E target \in 0 .. (Len(nodes) + 1) :
          /\ nodes' = append_child(nodes, target).nodes
          /\ before' = nodes
          /\ call' = [op |-> "append_child", a |-> target, b |-> Len(nodes),
                      ret |-> append_child(nodes, target).ret]
          /\ ncalls' = ncalls + 1
          /\ plain' = (plain /\ target # Len(nodes))
    /\ UNCHANGED <<queryVars, hql, iter>>

\* ChildrenTraverse::new(tree, parent, reversed) on any node.
NewChildrenTraverse ==
    /\ iter.kind = "none"
    /\ call.ret \in {"Some", "None"}
    /\ \E parent \in Ids(nodes), reversed \in BOOLEAN :
          iter' = ChildrenTraverse_new(nodes, parent, reversed)
    /\ UNCHANGED <<treeVars, queryVars, hql>>

\* PreOrderTraverse::new(tree, root) on any node.
NewPreOrderTraverse ==
    /\ iter.kind = "none"
    /\ call.ret \in {"Some", "None"}
    /\ \E start \in Ids(nodes) : iter' = PreOrderTraverse_new(nodes, start)
    /\ UNCHANGED <<treeVars, queryVars, hql>>

\* One call of next() that returns, on the iterator there is.
IterNext ==
    /\ iter.kind # "none"
    /\ iter.cur # Hang
    /\ iter.calls < MaxNext
    /\ iter' = IF iter.kind = "ChildrenTraverse"
               THEN ChildrenTraverse_next(nodes, iter)
               ELSE PreOrderTraverse_next(nodes, iter)
    /\ UNCHANGED <<treeVars, queryVars, hql>>

NextWalk ==
    \/ WalkAppendChild
    \/ NewChildrenTraverse
    \/ NewPreOrderTraverse
    \/ IterNext

SpecWalk == Init /\ [][NextWalk]_vars

----------------------------------------------------------------------------
(* The query executor, C16 .. C18 *)

\* The query has started and no stage has aborted.
QueryAlive == qret \in {"running", "returned"}

\* The last stage run, when one was run.
LastSelector == selectors[Len(selectors)]

\* What one stage is to produce from the working set refs: the outputs of
\* the selector for each member, member by member, concatenated; Panicked
\* when the selector aborts on a member.
StageOutput(doc, s, refs) ==
    LET each == [i \in 1 .. Len(refs) |-> select(doc, s, refs[i])] IN
    IF \E i \in DOMAIN each : each[i].panic THEN Panicked
    ELSE Out(Concat([i \in DOMAIN each |-> each[i].out]))

\* The left-to-right composition of the stages sels applied to refs.
RECURSIVE Pipeline(_, _, _)
Pipeline(doc, sels, refs) ==
    IF sels = <<>> THEN Out(refs)
    ELSE LET staged == StageOutput(doc, Head(sels), refs) IN
         IF staged.panic THEN Panicked
         ELSE Pipeline(doc, Tail(sels), staged.out)

\* C16: query_document starts with the working set [root reference]; each
\* stage, in the order of the selectors, replaces the working set by the
\* concatenation of the selector's outputs over the members of the set,
\* inputs in order and each input's outputs in order; the working set, and
\* the list returned, is the left-to-right composition of the stages run
\* applied to [root reference], and the query aborts exactly when that
\* composition does.
C16_WorkingSetIsComposition ==
    LET composed == Pipeline(html, selectors, <<root(html)>>) IN
    /\ (qret = "running" /\ selectors = <<>>) => working = <<root(html)>>
    /\ (QueryAlive /\ selectors # <<>>) =>
          working = StageOutput(html, LastSelector, wbefore).out
    /\ QueryAlive => (~composed.panic /\ working = composed.out)
    /\ qret = "panic" => composed.panic

\* A query of two stages returned; the second stage ran over two members or
\* more and gave three references or more.
C16_TwoStagesOverSeveralMembers ==
    /\ qret = "returned"
    /\ Len(selectors) = 2
    /\ Len(wbefore) >= 2
    /\ Len(working) >= 3
    /\ working[1] # working[Len(working)]

\* C17: once the working set is empty after a stage, it is empty after every
\* later stage, no later stage aborts, and the query returns the empty list.
C17_EmptyWorkingSetStaysEmpty ==
    [][(QueryAlive /\ working = <<>>) => (working' = <<>> /\ QueryAlive')]_vars

\* A query returned the empty list after a second stage, an id filter, ran
\* over the empty working set the first stage had left.
C17_StageRanOverEmptySet ==
    /\ qret = "returned"
    /\ Len(selectors) = 2
    /\ selectors[2].sel = "IDSelector"
    /\ wbefore = <<>>
    /\ working = <<>>

\* C18: whatever the document and the stages, in any order - the first
\* stage, applied to the root reference of Html::root, included - no stage
\* aborts: the query goes on and returns a list.
C18_NoStageAborts == qret # "panic"

----------------------------------------------------------------------------
(* The id and attribute filters, C19 and C20 *)

\* Reference r is an Element reference to an Element node.
IsElementRef(doc, r) == r.kind = "Element" /\ IsElementNode(doc, r.node)

\* Element e has an id attribute equal to want: character by character when
\* case_sensitive, ASCII case ignored otherwise.
IdEquals(e, want, case_sensitive) ==
    \E a \in e.attrs :
       /\ eq_ignore_ascii_case(a[1], str_id)
       /\ IF case_sensitive THEN a[2] = want ELSE eq_ignore_ascii_case(a[2], want)

\* C19: the id filter keeps a reference to an element exactly when the
\* element has an id attribute equal to the value of the filter (exactly
\* when the filter is case sensitive, ASCII case ignored when it is not): an
\* element with another id (id="main" for the case-sensitive filter "Main")
\* and every reference that is not an element reference are dropped.
C19_IdFilterKeepsEqualIds ==
    (QueryAlive /\ selectors # <<>> /\ LastSelector.sel = "IDSelector") =>
      /\ working = SelectSeq(wbefore,
                     LAMBDA r : /\ IsElementRef(html, r)
                                /\ IdEquals(data_ref(html, r.node), LastSelector.id,
                                            LastSelector.case_sensitive))
      /\ \A i \in DOMAIN working : working[i].kind = "Element"

\* Element e carries attribute name, with a value equal to the one required
\* (ASCII case ignored) when one is required.
CarriesAttr(e, name, val) ==
    \E a \in e.attrs :
       /\ a[1] = name
       /\ \A v \in val :
             /\ Len(a[2]) = Len(v)
             /\ \A k \in DOMAIN v : to_ascii_lowercase(a[2][k]) = to_ascii_lowercase(v[k])

\* The attribute filter for target = "_blank" keeps an element whose target
\* is "_BLANK".
BlankMatchesInAnyCase ==
    select([nodes |-> TreeNew, data |-> <<Element(str_a, {<<str_target, str_BLANK>>})>>],
           [sel |-> "AttrSelector", name |-> str_target, val |-> {str_blank}],
           ElementRef(0)) = Out(<<ElementRef(0)>>)

\* C20: the attribute filter without required value keeps exactly the
\* references to elements that carry the attribute; with required value v
\* it keeps exactly those whose value for the attribute equals v, ASCII case
\* ignored (target="_BLANK" is kept by the required value "_blank"); Text
\* and PhantomText references are dropped.  Stated for each reference the
\* stage is given, and for the working set of a stage that returned.
C20_AttrFilterKeepsCarriers ==
    (qret # "parsing" /\ selectors # <<>> /\ LastSelector.sel = "AttrSelector") =>
      /\ \A i \in DOMAIN wbefore :
            LET r == wbefore[i]
                got == select(html, LastSelector, r)
            IN /\ r.kind # "Element" => got = Out(<<>>)
               /\ IsElementRef(html, r) =>
                    got = Out(IF CarriesAttr(data_ref(html, r.node),
                                             LastSelector.name, LastSelector.val)
                              THEN <<r>> ELSE <<>>)
      /\ QueryAlive =>
            working = SelectSeq(wbefore,
                        LAMBDA r : /\ IsElementRef(html, r)
                                   /\ CarriesAttr(data_ref(html, r.node),
                                                  LastSelector.name, LastSelector.val))
      /\ BlankMatchesInAnyCase

\* The attribute filter for target = "_blank" ran over the element
\* <a target="_BLANK"> and a Text reference: it kept the element alone.
C20_BlankKeptTextDropped ==
    /\ qret = "returned"
    /\ Len(selectors) = 2
    /\ LastSelector = [sel |-> "AttrSelector", name |-> str_target, val |-> {str_blank}]
    /\ Len(wbefore) = 2
    /\ wbefore[2].kind = "Text"
    /\ working = <<wbefore[1]>>

----------------------------------------------------------------------------
(* The text stages, C21 .. C23 *)

\* The contents of the Text nodes of the subtree of h - h and its
\* descendants - in document order, concatenated.
DescendantText(doc, h) ==
    LET order == SelectSeq(DepthFirst(doc.nodes, h, Len(doc.nodes)),
                           LAMBDA n : data_ref(doc, n).kind = "Text")
    IN Concat([i \in 1 .. Len(order) |-> data_ref(doc, order[i]).text])

\* C21: text extraction replaces an element reference e - an element
\* without children that has following siblings included - by exactly one
\* phantom text reference holding the contents of the text nodes that are
\* descendants of e, in document order, and no text of a node outside the
\* subtree of e; a text or phantom reference is returned unchanged.
C21_TextIsDescendantText ==
    (QueryAlive /\ selectors # <<>> /\ LastSelector.sel = "TextSelector") =>
      /\ Len(working) = Len(wbefore)
      /\ \A i \in DOMAIN wbefore :
            i \in DOMAIN working =>
              working[i] = IF wbefore[i].kind = "Element"
                           THEN PhantomText(DescendantText(html, wbefore[i].node))
                           ELSE wbefore[i]

\* The children of node h that are Element or Text nodes, first child first,
\* as references.
CountedChildren(doc, h) ==
    LET counted == SelectSeq(ChildrenByHandle(doc.nodes, h),
                             LAMBDA c : data_ref(doc, c).kind \in {"Element", "Text"})
    IN [i \in 1 .. Len(counted) |->
          [kind |-> data_ref(doc, counted[i]).kind, node |-> counted[i]]]

\* What nth-child(n, reversed) is to give for reference r.
NthCounted(doc, n, reversed, r) ==
    IF r.kind # "Element" THEN <<>>
    ELSE LET c == CountedChildren(doc, r.node) IN
         IF n >= Len(c) THEN <<>>
         ELSE <<c[IF reversed THEN Len(c) - n ELSE n + 1]>>

\* C22: for an element reference nth-child(n, reversed) yields exactly one
\* reference, the n-th (from zero) of the children of the element that are
\* Element or Text nodes, other kinds not counted, from the first child
\* when reversed is false and from the last when it is true; it yields
\* nothing when the element has n such children or fewer, and nothing for
\* text and phantom references.
C22_NthChildIsNthCountedChild ==
    (QueryAlive /\ selectors # <<>> /\ LastSelector.sel = "NthChildSelector") =>
      /\ \A i \in DOMAIN wbefore :
            select(html, LastSelector, wbefore[i]) =
              Out(NthCounted(html, LastSelector.n, LastSelector.reversed, wbefore[i]))
      /\ working = Concat([i \in DOMAIN wbefore |->
                             NthCounted(html, LastSelector.n, LastSelector.reversed,
                                        wbefore[i])])

\* nth-child(1, reversed) ran over the root reference of a page whose root
\* has two children, both elements: it gave the first of the two, the second
\* from last.
C22_SecondFromLastOfTwo ==
    /\ qret = "returned"
    /\ selectors = <<[sel |-> "NthChildSelector", n |-> 1, reversed |-> TRUE]>>
    /\ wbefore = <<ElementRef(0)>>
    /\ Len(CountedChildren(html, 0)) = 2
    /\ working = <<ElementRef(1)>>

\* The three trimming stages.
TrimStages == {"TrimSelector", "TrimPrefixSelector", "TrimSuffixSelector"}

\* C23: trim applied to the output of trim gives the same text content as
\* trim applied once, for text and phantom text references; trim,
\* trim-prefix and trim-suffix return an element reference unchanged.
C23_TrimIdempotent ==
    (QueryAlive /\ selectors # <<>> /\ LastSelector.sel \in TrimStages) =>
      \A i \in DOMAIN wbefore :
         LET r == wbefore[i]
             once == select(html, LastSelector, r)
         IN /\ r.kind = "Element" => once = Out(<<r>>)
            /\ (r.kind # "Element" /\ LastSelector.sel = "TrimSelector") =>
                  /\ Len(once.out) = 1
                  /\ once.out[1].kind = "PhantomText"
                  /\ select(html, LastSelector, once.out[1]) = once

\* trim ran over an element reference and a reference to the text " hi ":
\* it kept the first and gave the phantom "hi" for the second.
C23_TrimmedTextAndElement ==
    /\ qret = "returned"
    /\ Len(selectors) = 2
    /\ LastSelector.sel = "TrimSelector"
    /\ wbefore = <<ElementRef(1), TextRef(2)>>
    /\ RefText(html, wbefore[2]) = str_hi
    /\ working = <<ElementRef(1), PhantomText(<<"h", "i">>)>>

----------------------------------------------------------------------------
(* Compiling @child, C24 *)

\* The decimal text of the natural number k, without leading zeros.
RECURSIVE Decimal(_)
Decimal(k) ==
    LET last == CHOOSE c \in Digits : DigitOf[c] = k % 10
    IN IF k < 10 THEN <<last>> ELSE Append(Decimal(k \div 10), last)

\* The numbers whose decimal text the model compiles.
ChildIndices == 0 .. (10 ^ MaxDigits - 1)

\* The decimal text of each of them.
DecimalOf == [k \in ChildIndices |-> Decimal(k)]

----------------------------------------------------------------------------
(* Moving and unlinking nodes, C25 .. C29 *)

\* In tree to, node n - a child of q in tree from - has left its old place
\* for the place before s: its former neighbours are linked to each other
\* (the former previous sibling is linked to n when s was the next sibling),
\* and unless s is a child of q, n is neither in the children chain of q nor
\* named by the children field of q.
LeftOldPlace(from, to, s, n) ==
    LET q == node_ref(from, n).parent
        a == node_ref(from, n).previous_sibling
        b == node_ref(from, n).next_sibling
        ch == children_range(to, q)
    IN /\ (a # None /\ b # s) => node_ref(to, a).next_sibling = b
       /\ (b # None /\ b # s) => node_ref(to, b).previous_sibling = a
       /\ (a # None /\ b = s) => node_ref(to, a).next_sibling = n
       /\ node_ref(from, s).parent # q =>
             /\ Occurrences(ChildrenTraverse(to, q, FALSE), n) = 0
             /\ Occurrences(ChildrenTraverse(to, q, TRUE), n) = 0
             /\ ch # NoChildren => (ch[1] # n /\ ch[2] # n)

\* C25: on a well-formed tree, when the new node n is a child of some node
\* q, inserting n before s - by insert_id_before, and by
\* append_before_sibling - detaches n first: afterwards n is no longer at
\* its old place in the children chain of q, the former neighbours of n are
\* linked to each other, and the children field of q names n only if n was
\* inserted under q again.
C25_InsertBeforeDetachesFirst ==
    (plain /\ Returned /\ WellFormed(nodes)) =>
      \A s \in Ids(nodes), n \in Ids(nodes) :
         ( /\ node_ref(nodes, s).parent # None
           /\ node_ref(nodes, n).parent # None
           /\ Apart(nodes, s, n) ) =>
           LET tree == insert_id_before(nodes, s, n)
               sink == append_before_sibling(nodes, s, n)
           IN /\ tree.ret = "Some" /\ LeftOldPlace(nodes, tree.nodes, s, n)
              /\ sink.ret = "Some" /\ LeftOldPlace(nodes, sink.nodes, s, n)

\* C26: on a well-formed tree whose root has no parent, after detach(h) of
\* a linked node h other than the root, node_ref(h) still returns the node
\* and the arena has the length it had, and h is unreachable from the root:
\* the pre-order traversal from the root visits neither h nor any node of
\* the subtree of h.
C26_DetachedIsUnreachable ==
    \A h \in Ids(before) \ {0} :
       ( /\ plain /\ WellFormed(before)
         /\ node_ref(before, 0).parent = None
         /\ Called("detach", h, None)
         /\ node_ref(before, h).parent # None ) =>
         /\ Len(nodes) = Len(before)
         /\ node_ref(nodes, h).id = h
         /\ \A x \in Subtree(before, h) :
               Occurrences(PreOrderTraverse(nodes, 0), x) = 0

\* C27: detach(h) on a node whose parent is None returns Some and leaves the
\* links of every node as they were; and after a detach(h) that returned,
\* for any h, a second detach(h) returns the same and leaves the tree the
\* first one left.
C27_DetachIdempotent ==
    /\ \A h \in Ids(before) :
          (Called("detach", h, None) /\ node_ref(before, h).parent = None) =>
            (call.ret = "Some" /\ nodes = before)
    /\ (call.op = "detach" /\ Returned) =>
          detach(nodes, call.a) = Ret(nodes, call.ret)

\* detach(h) returned on a node h that had a parent, and unlinked it: the
\* tree is not the one it was given.
C27_DetachUnlinkedANode ==
    /\ call.op = "detach" /\ call.ret = "Some"
    /\ node_ref(before, call.a).parent # None
    /\ node_ref(nodes, call.a).parent = None
    /\ nodes # before

\* Handle h addresses no slot of the arena ns.
OutOfRange(ns, h) == ~InRange(ns, h)

\* C28: append_child_id, detach and reparent_from_id_append called with a
\* handle out of range (the length of the arena or more) return None and
\* leave the length of the arena and the parent, children and sibling links
\* of every node as they were; node_ref of a handle out of range is None.
C28_OutOfRangeHandleIsNone ==
    /\ ( /\ call.op \in {"append_child_id", "reparent_from_id_append"}
         /\ (OutOfRange(before, call.a) \/ OutOfRange(before, call.b)) ) =>
          (call.ret = "None" /\ nodes = before)
    /\ (call.op = "detach" /\ OutOfRange(before, call.a)) =>
          (call.ret = "None" /\ nodes = before)
    /\ \A far \in {Len(nodes), Len(nodes) + 2} :
          /\ Deref(nodes, far) = None
          /\ detach(nodes, far) = Ret(nodes, "None")
          /\ \A h \in 0 .. Len(nodes) :
                /\ append_child_id(nodes, h, far) = Ret(nodes, "None")
                /\ append_child_id(nodes, far, h) = Ret(nodes, "None")
                /\ reparent_from_id_append(nodes, h, far) = Ret(nodes, "None")
                /\ reparent_from_id_append(nodes, far, h) = Ret(nodes, "None")

\* reparent_from_id_append was called on a node with children and a new
\* parent one past the end of the arena: it returned None and no node
\* changed.
C28_ReparentToMissingParent ==
    /\ call.op = "reparent_from_id_append"
    /\ InRange(before, call.a)
    /\ children_range(before, call.a) # NoChildren
    /\ call.b = Len(before)
    /\ call.ret = "None"
    /\ nodes = before

\* C29: insert_id_before(s, n) where s has no parent - the root, or an
\* unlinked node - returns None and changes no link of any node, n
\* included.
C29_InsertBeforeParentlessIsNone ==
    \A s \in Ids(before) :
       ( /\ call.op = "insert_id_before" /\ call.a = s
         /\ node_ref(before, s).parent = None ) =>
         (call.ret = "None" /\ nodes = before)

\* insert_id_before was called with the root, which has children, as s and
\* with a linked node n: it returned None and no node changed.
C29_InsertBeforeRootRefused ==
    /\ call.op = "insert_id_before"
    /\ call.a = 0
    /\ node_ref(before, 0).parent = None
    /\ children_range(before, 0) # NoChildren
    /\ InRange(before, call.b)
    /\ node_ref(before, call.b).parent # None
    /\ call.ret = "None"
    /\ nodes = before

----------------------------------------------------------------------------
(* Flattening a phantom, C30 *)

\* C30: traverse_subtree of a phantom reference yields exactly one item,
\* the phantom reference itself, so the flatten stage applied to a phantom
\* text reference returns that reference, not an empty result.
C30_FlattenKeepsPhantom ==
    (QueryAlive /\ selectors # <<>> /\ LastSelector.sel = "FlatSelector") =>
      \A i \in DOMAIN wbefore :
         wbefore[i].kind = "PhantomText" =>
           /\ traverse_subtree(html, wbefore[i]) = <<wbefore[i]>>
           /\ select(html, LastSelector, wbefore[i]) = Out(<<wbefore[i]>>)

----------------------------------------------------------------------------
(* Traversals end, C31 and C37 *)

\* The cursor of a pre-order traversal from start after k calls of next(),
\* starting from cursor cur; Hang when one of the calls never returns.
RECURSIVE CursorAfter(_, _, _, _)
CursorAfter(ns, start, cur, k) ==
    IF k = 0 \/ cur = None \/ cur = Hang THEN cur
    ELSE CursorAfter(ns, start, PreOrderNext(ns, start, cur), k - 1)

\* C31: on every tree reached by append_child_id, insert_id_before, detach
\* and reparent_from_id_append calls that link no node under itself or a
\* descendant, the pre-order traversal from any node and the children
\* traversal of any node, forward and reverse, are finite: next() returns
\* None after yielding at most as many items as the arena has nodes.
C31_TraversalsAreFinite ==
    (plain /\ Returned) =>
      \A r \in Ids(nodes) :
         /\ CursorAfter(nodes, r, r, Len(nodes)) = None
         /\ Len(ChildrenTraverse(nodes, r, FALSE)) <= Len(nodes)
         /\ Len(ChildrenTraverse(nodes, r, TRUE)) <= Len(nodes)

----------------------------------------------------------------------------
(* Children of a reference, C32 *)

\* The child step /a.
ChildStepA == [sel |-> "PathSelector", paths |-> <<[path |-> "Single", tag |-> str_a]>>]

\* C32: traverse_children(reversed) of a reference to a node of the tree
\* yields exactly the immediate children of the node that are Element or
\* Text nodes, in sibling order, forward or reverse; children of other
\* kinds are skipped without ending the traversal, grandchildren are never
\* yielded; of a phantom reference it yields nothing.  Stated of every page
\* parsed, and of the page a child step ran over.
C32_TraverseChildrenIsCountedChildren ==
    (qret = "parsing" \/ (selectors # <<>> /\ LastSelector = ChildStepA)) =>
      /\ \A h \in Ids(html.nodes) :
            LET counted == CountedChildren(html, h) IN
            \A r \in {ElementRef(h), TextRef(h)} :
               /\ traverse_children(html, r, FALSE) = counted
               /\ traverse_children(html, r, TRUE) = Reverse(counted)
      /\ \A reversed \in BOOLEAN :
            traverse_children(html, PhantomText(str_hi), reversed) = <<>>

\* The path step /a ran over the root reference of a page whose root has a
\* comment, then an element a, as children: the step went past the comment
\* and gave the element.
C32_StepWentPastComment ==
    /\ qret = "returned"
    /\ selectors = <<ChildStepA>>
    /\ ChildrenTraverse(html.nodes, 0, FALSE) = <<1, 2>>
    /\ data_ref(html, 1).kind = "Comment"
    /\ working = <<ElementRef(2)>>

----------------------------------------------------------------------------
(* The descendant step, C33 *)

\* The elements of the subtree of the node of reference r - the node itself
\* included - whose tag is tag, ASCII case ignored, in depth-first order, as
\* references; none for a phantom.
MatchingInSubtree(doc, r, tag) ==
    IF r.kind = "PhantomText" THEN <<>>
    ELSE LET found == SelectSeq(DepthFirst(doc.nodes, r.node, Len(doc.nodes)),
                        LAMBDA n : /\ data_ref(doc, n).kind = "Element"
                                   /\ eq_ignore_ascii_case(data_ref(doc, n).name, tag))
         IN [i \in 1 .. Len(found) |-> ElementRef(found[i])]

\* C33: the descendant step //tag applied to a reference r yields exactly
\* the elements of the subtree of r - r itself when it is an element with
\* that tag - whose tag equals tag, ASCII case ignored, in pre-order, and no
\* element outside the subtree of r; the steps of a path are applied left
\* to right, each to the results of the one before.
C33_DescendantStepStaysInSubtree ==
    ( /\ QueryAlive /\ selectors # <<>>
      /\ LastSelector.sel = "PathSelector"
      /\ LastSelector.paths[1].path = "Travel" ) =>
      \A i \in DOMAIN wbefore :
         select(html, LastSelector, wbefore[i]) =
           Out(MatchingInSubtree(html, wbefore[i], LastSelector.paths[1].tag))

----------------------------------------------------------------------------
(* The event sink, C34 and C35 *)

\* Tree to is tree from with one more node, unlinked and childless before,
\* linked as the last child of parent: nothing else differs.
OneNodeLinkedLast(from, to, parent) ==
    LET n == Len(from)
        old == children_range(from, parent)
    IN /\ Len(to) = n + 1
       /\ node_ref(to, n) =
            [id |-> n, parent |-> parent, children |-> NoChildren,
             previous_sibling |-> IF old = NoChildren THEN None ELSE old[2],
             next_sibling |-> None]
       /\ children_range(to, parent) = <<IF old = NoChildren THEN n ELSE old[1], n>>
       /\ \A h \in Ids(from) :
             /\ node_ref(to, h).id = h
             /\ node_ref(to, h).parent = node_ref(from, h).parent
             /\ node_ref(to, h).previous_sibling = node_ref(from, h).previous_sibling
             /\ node_ref(to, h).next_sibling =
                  (IF old # NoChildren /\ h = old[2] THEN n
                   ELSE node_ref(from, h).next_sibling)
             /\ h # parent => node_ref(to, h).children = node_ref(from, h).children

\* The step is an append of a text chunk: the page changes while parsing,
\* and what is new is text.
TextAppended ==
    /\ qret = "parsing"
    /\ html' # html
    /\ \/ Len(html'.data) = Len(html.data)
       \/ html'.data[Len(html'.data)].kind = "Text"

LinkedUnderOnly(ns, child, p) ==
    /\ node_ref(ns, child).parent = p
    /\ \A q \in Ids(ns) :
          /\ Occurrences(ChildrenTraverse(ns, q, FALSE), child) = (IF q = p THEN 1 ELSE 0)
          /\ (q # p /\ children_range(ns, q) # NoChildren) =>
                (children_range(ns, q)[1] # child /\ children_range(ns, q)[2] # child)

\* What append_based_on_parent_node(element, prev_element, child) is to
\* leave of tree ns: child immediately before element under the parent of
\* element when there is one, else last child of prev_element; child linked
\* nowhere else.
PlacedByParentNode(ns, element, prev_element, child) ==
    LET p == node_ref(ns, element).parent
        r == append_based_on_parent_node(ns, element, prev_element, child)
    IN /\ r.ret = "Some"
       /\ p # None =>
             /\ node_ref(r.nodes, element).previous_sibling = child
             /\ node_ref(r.nodes, child).next_sibling = element
             /\ LinkedUnderOnly(r.nodes, child, p)
       /\ p = None =>
             /\ children_range(r.nodes, prev_element) # NoChildren
             /\ children_range(r.nodes, prev_element)[2] = child
             /\ node_ref(r.nodes, child).next_sibling = None
             /\ LinkedUnderOnly(r.nodes, child, prev_element)

\* C35: on a well-formed tree, append_based_on_parent_node(element,
\* prev_element, child): if element has a parent, child is inserted
\* immediately before element among its siblings; if element has no
\* parent, child is appended as the last child of prev_element; in neither
\* case is child linked anywhere else.
C35_AppendBasedOnParentNode ==
    (plain /\ Returned /\ WellFormed(nodes)) =>
      \A element \in Ids(nodes), prev_element \in Ids(nodes), child \in Ids(nodes) :
         (Apart(nodes, element, child) /\ Apart(nodes, prev_element, child)) =>
           PlacedByParentNode(nodes, element, prev_element, child)

\* For a child that is unlinked when the event comes, the placement of C35
\* is what the code does: C35 fails only for a child that detach has to
\* unlink first.
PlacedByParentNodeUnlinkedChild ==
    (plain /\ Returned /\ WellFormed(nodes)) =>
      \A element \in Ids(nodes), prev_element \in Ids(nodes), child \in Ids(nodes) :
         ( /\ Apart(nodes, element, child) /\ Apart(nodes, prev_element, child)
           /\ Unlinked(nodes, child) ) =>
           PlacedByParentNode(nodes, element, prev_element, child)

----------------------------------------------------------------------------
(* A query leaves the page alone, C36 *)

C37_EndedIteratorStaysEnded ==
    [][(iter.kind # "none" /\ iter.calls > 0 /\ iter.item = None) =>
         (iter'.item = None /\ iter'.cur = None /\ iter.cur = None)]_vars

\* A children traversal of a node with two children was called four times:
\* the two children, then None twice.
C37_CalledTwiceAfterEnd ==
    /\ iter.kind = "ChildrenTraverse"
    /\ Len(ChildrenTraverse(nodes, iter.start, iter.reversed)) = 2
    /\ iter.calls = 4
    /\ iter.item = None
    /\ iter.cur = None

====
